---- MODULE Spec2Model ----
(***************************************************************************)
(* ModelWatch collection-and-fusion pipeline.                              *)
(*                                                                         *)
(*   backend/scrapers/huggingface_scraper.py   HuggingFaceScraper          *)
(*   backend/scrapers/llmstats_scraper.py      LLMStatsScraper             *)
(*   backend/scrapers/llmstats_orchestrator.py LLMStatsOrchestrator        *)
(*   backend/scrapers/simple_orchestrator.py   SimpleOrchestrator          *)
(*   backend/api/main.py                       load_data                   *)
(*                                                                         *)
(* One process builds one orchestrator (and with it one HuggingFaceScraper *)
(* instance and its cache) and calls collect_all_data on it; the snapshot  *)
(* file outlives the process and is read by the API at any moment.         *)
(***************************************************************************)
EXTENDS Integers, Sequences, FiniteSets, TLC

(***************************************************************************)
(* Bounds of the model.                                                    *)
(***************************************************************************)
\* identifiers handed to the HuggingFaceScraper instance over its life, summed
\* over the calls made on it
MaxIds == 2
\* calls (collect_all_data or scrape_models_batch) made on the one instance
MaxRuns == 2

(***************************************************************************)
(* Values.                                                                 *)
(***************************************************************************)
\* Python's None, for string-valued optional fields and a cached 404
None == "None"

\* entity identifiers: three spellings that differ in letter casing or in a
\* trailing slash only
Ids == {"acme/foo", "Acme/Foo", "acme/foo/"}

\* the canonical form spec.md section 3 asks of a merge key: lower case, no
\* trailing slash.  The code has no such function; only the properties about
\* identifier normalisation use it.
Canonical(id) ==
    CASE id = "acme/foo"  -> "acme/foo"
      [] id = "Acme/Foo"  -> "acme/foo"
      [] id = "acme/foo/" -> "acme/foo"
      [] OTHER            -> id

(***************************************************************************)
(* Sequence helpers.                                                       *)
(***************************************************************************)
Range(s) == {s[k] : k \in 1..Len(s)}

SeqsUpTo(S, n) == UNION {[1..k -> S] : k \in 0..n}

Min(a, b) == IF a < b THEN a ELSE b

RECURSIVE SumLen(_)
SumLen(s) == IF s = <<>> THEN 0 ELSE Len(Head(s).benchmarks) + SumLen(Tail(s))

(***************************************************************************)
(* Text.  A Python str is modelled by the string itself where it is only   *)
(* stored or compared, and by its character sequence (Chars) where the     *)
(* code looks inside it: str.lower, the `in` substring test, re.search.    *)
(***************************************************************************)
Chars(s) ==
    CASE s = "MMLU"           -> <<"M","M","L","U">>
      [] s = "mmlu"           -> <<"m","m","l","u">>
      [] s = "GSM8K"          -> <<"G","S","M","8","K">>
      [] s = "gsm8k"          -> <<"g","s","m","8","k">>
      [] s = "HumanEval"      -> <<"H","u","m","a","n","E","v","a","l">>
      [] s = "MMLU-Pro"       -> <<"M","M","L","U","-","P","r","o">>
      [] s = "Agent Code"     -> <<"A","g","e","n","t"," ","C","o","d","e">>
      [] s = "Arc-Challenge"  -> <<"A","r","c","-","C","h","a","l","l","e","n","g","e">>
      [] s = "HellaSwag"      -> <<"H","e","l","l","a","S","w","a","g">>
      [] s = "TruthfulQA"     -> <<"T","r","u","t","h","f","u","l","Q","A">>
      [] s = "Winogrande"     -> <<"W","i","n","o","g","r","a","n","d","e">>
      [] s = "GPQA"           -> <<"G","P","Q","A">>
      [] s = "AIME"           -> <<"A","I","M","E">>
      [] s = "MATH"           -> <<"M","A","T","H">>
      [] s = "Benchmark_11"   -> <<"B","e","n","c","h","m","a","r","k","_","1","1">>
      [] s = "Benchmark_12"   -> <<"B","e","n","c","h","m","a","r","k","_","1","2">>
      [] s = "85.5%"          -> <<"8","5",".","5","%">>
      [] s = "85.5"           -> <<"8","5",".","5">>
      [] s = "85.50"          -> <<"8","5",".","5","0">>
      [] s = "70"             -> <<"7","0">>
      [] s = "n/a"            -> <<"n","/","a">>
      [] s = "1.2.3"          -> <<"1",".","2",".","3">>
      [] s = "-5%"            -> <<"-","5","%">>
      [] s = "73.1%"          -> <<"7","3",".","1","%">>
      [] s = "Llama-3"        -> <<"L","l","a","m","a","-","3">>
      [] s = "$0.60"          -> <<"$","0",".","6","0">>
      [] s = "8,192"          -> <<"8",",","1","9","2">>
      [] s = "1,234"          -> <<"1",",","2","3","4">>
      [] s = ","              -> <<",">>
      [] s = "apache-2.0"     -> <<"a","p","a","c","h","e","-","2",".","0">>
      [] s = "Proprietary"    -> <<"P","r","o","p","r","i","e","t","a","r","y">>
      [] s = "mit"            -> <<"m","i","t">>
      [] s = "apache"         -> <<"a","p","a","c","h","e">>
      [] s = "gpl"            -> <<"g","p","l">>
      [] s = "bsd"            -> <<"b","s","d">>
      [] s = "cc-by"          -> <<"c","c","-","b","y">>
      [] s = "llama"          -> <<"l","l","a","m","a">>
      [] s = "openrail"       -> <<"o","p","e","n","r","a","i","l">>
      [] s = "bigscience"     -> <<"b","i","g","s","c","i","e","n","c","e">>
      [] s = "deepseek"       -> <<"d","e","e","p","s","e","e","k">>
      [] s = "code"           -> <<"c","o","d","e">>
      [] s = "swe"            -> <<"s","w","e">>
      [] s = "humaneval"      -> <<"h","u","m","a","n","e","v","a","l">>
      [] s = "livecode"       -> <<"l","i","v","e","c","o","d","e">>
      [] s = "math"           -> <<"m","a","t","h">>
      [] s = "gsm"            -> <<"g","s","m">>
      [] s = "aime"           -> <<"a","i","m","e">>
      [] s = "hmmt"           -> <<"h","m","m","t">>
      [] s = "agent"          -> <<"a","g","e","n","t">>
      [] s = "tool"           -> <<"t","o","o","l">>
      [] s = "browse"         -> <<"b","r","o","w","s","e">>
      [] s = "gpqa"           -> <<"g","p","q","a">>
      [] s = "reasoning"      -> <<"r","e","a","s","o","n","i","n","g">>
      [] s = "human"          -> <<"h","u","m","a","n">>
      [] s = "live"           -> <<"l","i","v","e">>
      [] s = "arc"            -> <<"a","r","c">>
      [] s = "truthful"       -> <<"t","r","u","t","h","f","u","l">>
      [] s = "winogrande"     -> <<"w","i","n","o","g","r","a","n","d","e">>
      [] s = "mmlu-pro"       -> <<"m","m","l","u","-","p","r","o">>
      [] s = "mmlu pro"       -> <<"m","m","l","u"," ","p","r","o">>
      [] s = "gpqa-diamond"   -> <<"g","p","q","a","-","d","i","a","m","o","n","d">>
      [] s = "gpqa diamond"   -> <<"g","p","q","a"," ","d","i","a","m","o","n","d">>
      [] s = "swe-bench"      -> <<"s","w","e","-","b","e","n","c","h">>
      [] s = "swe bench"      -> <<"s","w","e"," ","b","e","n","c","h">>
      [] s = "livecodebench"  -> <<"l","i","v","e","c","o","d","e","b","e","n","c","h">>
      [] s = "US"             -> <<"U","S">>
      [] s = "Llama-3-70B"    -> <<"L","l","a","m","a","-","3","-","7","0","B">>
      [] s = "DeepSeek-Llama" -> <<"D","e","e","p","S","e","e","k","-","L","l","a","m","a">>
      [] s = "GLM NEW"        -> <<"G","L","M"," ","N","E","W">>
      [] s = "GLM"            -> <<"G","L","M">>
      [] s = "Zephyr"         -> <<"Z","e","p","h","y","r">>
      [] s = "acme/foo-7b"    -> <<"a","c","m","e","/","f","o","o","-","7","b">>
      [] s = "Model"          -> <<"M","o","d","e","l">>
      [] s = "---"            -> <<"-","-","-">>
      [] s = "$0.80"          -> <<"$","0",".","8","0">>
      [] s = "85.2%"          -> <<"8","5",".","2","%">>
      [] s = "n/a%"           -> <<"n","/","a","%">>
      [] s = "358"            -> <<"3","5","8">>
      [] s = "NEW"            -> <<"N","E","W">>
      [] s = "rank"           -> <<"r","a","n","k">>
      [] s = "model"          -> <<"m","o","d","e","l">>
      [] s = "position"       -> <<"p","o","s","i","t","i","o","n">>
      [] s = "name"           -> <<"n","a","m","e">>
      [] s = "unknown"        -> <<"u","n","k","n","o","w","n">>
      [] s = "glm"            -> <<"g","l","m">>
      [] s = "kimi"           -> <<"k","i","m","i">>
      [] s = "mimo"           -> <<"m","i","m","o">>
      [] s = "qwen"           -> <<"q","w","e","n">>
      [] s = "yi"             -> <<"y","i">>
      [] s = "mistral"        -> <<"m","i","s","t","r","a","l">>
      [] s = "mixtral"        -> <<"m","i","x","t","r","a","l">>
      [] s = "gemma"          -> <<"g","e","m","m","a">>
      [] s = "gemini"         -> <<"g","e","m","i","n","i">>
      [] s = "phi"            -> <<"p","h","i">>
      [] s = "gpt"            -> <<"g","p","t">>
      [] s = "claude"         -> <<"c","l","a","u","d","e">>
      [] s = "nemotron"       -> <<"n","e","m","o","t","r","o","n">>
      [] s = "hermes"         -> <<"h","e","r","m","e","s">>
      [] s = "nous"           -> <<"n","o","u","s">>
      [] s = "solar"          -> <<"s","o","l","a","r">>
      [] s = "commandr"       -> <<"c","o","m","m","a","n","d","r">>
      [] s = "aya"            -> <<"a","y","a">>
      [] s = "THUDM"          -> <<"T","H","U","D","M">>
      [] s = "MoonshotAI"     -> <<"M","o","o","n","s","h","o","t","A","I">>
      [] s = "AIDC-AI"        -> <<"A","I","D","C","-","A","I">>
      [] s = "Qwen"           -> <<"Q","w","e","n">>
      [] s = "01-ai"          -> <<"0","1","-","a","i">>
      [] s = "deepseek-ai"    -> <<"d","e","e","p","s","e","e","k","-","a","i">>
      [] s = "meta-llama"     -> <<"m","e","t","a","-","l","l","a","m","a">>
      [] s = "mistralai"      -> <<"m","i","s","t","r","a","l","a","i">>
      [] s = "google"         -> <<"g","o","o","g","l","e">>
      [] s = "microsoft"      -> <<"m","i","c","r","o","s","o","f","t">>
      [] s = "openai"         -> <<"o","p","e","n","a","i">>
      [] s = "anthropic"      -> <<"a","n","t","h","r","o","p","i","c">>
      [] s = "nvidia"         -> <<"n","v","i","d","i","a">>
      [] s = "NousResearch"   -> <<"N","o","u","s","R","e","s","e","a","r","c","h">>
      [] s = "upstage"        -> <<"u","p","s","t","a","g","e">>
      [] s = "CohereForAI"    -> <<"C","o","h","e","r","e","F","o","r","A","I">>
      [] OTHER                -> <<>>

Digit == {"0","1","2","3","4","5","6","7","8","9"}

DigitVal(c) ==
    CASE c = "0" -> 0 [] c = "1" -> 1 [] c = "2" -> 2 [] c = "3" -> 3
      [] c = "4" -> 4 [] c = "5" -> 5 [] c = "6" -> 6 [] c = "7" -> 7
      [] c = "8" -> 8 [] c = "9" -> 9 [] OTHER -> 0

\* str.lower, one character
LowerChar(c) ==
    CASE c = "A" -> "a" [] c = "B" -> "b" [] c = "C" -> "c" [] c = "D" -> "d"
      [] c = "E" -> "e" [] c = "F" -> "f" [] c = "G" -> "g" [] c = "H" -> "h"
      [] c = "I" -> "i" [] c = "J" -> "j" [] c = "K" -> "k" [] c = "L" -> "l"
      [] c = "M" -> "m" [] c = "N" -> "n" [] c = "O" -> "o" [] c = "P" -> "p"
      [] c = "Q" -> "q" [] c = "R" -> "r" [] c = "S" -> "s" [] c = "T" -> "t"
      [] c = "U" -> "u" [] c = "V" -> "v" [] c = "W" -> "w" [] c = "X" -> "x"
      [] c = "Y" -> "y" [] c = "Z" -> "z"
      [] OTHER -> c

\* str.lower
Lower(cs) == [k \in 1..Len(cs) |-> LowerChar(cs[k])]

\* `sub in cs` of Python, on character sequences
Contains(cs, sub) ==
    \E k \in 1..(Len(cs) - Len(sub) + 1) : SubSeq(cs, k, k + Len(sub) - 1) = sub

\* any(x in name_lower for x in keywords)
AnyIn(cs, keywords) == \E kw \in keywords : Contains(cs, kw)

(***************************************************************************)
(* Numbers.  A float read from page text is kept exactly, in thousandths   *)
(* (85.5 is 85500); the texts of the model have at most three fractional   *)
(* digits.  A parse gives [ok, val]; ok = FALSE is "no match" or float()   *)
(* raising ValueError.                                                     *)
(***************************************************************************)
Parsed(v) == [ok |-> TRUE, val |-> v]

NoParse == [ok |-> FALSE, val |-> 0]

\* length of the run of digits of cs that starts at position k
RECURSIVE DigitRun(_, _)
DigitRun(cs, k) ==
    IF k <= Len(cs) /\ cs[k] \in Digit THEN 1 + DigitRun(cs, k + 1) ELSE 0

\* value of a sequence of digits
RECURSIVE DigitsVal(_)
DigitsVal(ds) ==
    IF ds = <<>> THEN 0
    ELSE 10 * DigitsVal(SubSeq(ds, 1, Len(ds) - 1)) + DigitVal(ds[Len(ds)])

\* the fractional digits ds as thousandths
FracVal(ds) ==
    LET d(k) == IF k <= Len(ds) THEN DigitVal(ds[k]) ELSE 0
    IN  100 * d(1) + 10 * d(2) + d(3)

\* float() of the token \d+\.?\d* that starts at position p of cs
TokenVal(cs, p) ==
    LET n    == DigitRun(cs, p)
        dot  == p + n <= Len(cs) /\ cs[p + n] = "."
        m    == IF dot THEN DigitRun(cs, p + n + 1) ELSE 0
    IN  1000 * DigitsVal(SubSeq(cs, p, p + n - 1))
          + FracVal(SubSeq(cs, p + n + 1, p + n + m))

\* str.replace(',', ''): cs without its commas
RECURSIVE replace_commas(_)
replace_commas(cs) ==
    IF cs = <<>> THEN <<>>
    ELSE (IF Head(cs) = "," THEN <<>> ELSE <<Head(cs)>>) \o replace_commas(Tail(cs))

\* int(group.replace(',', '')) for a group matched by [0-9,]+ : ValueError
\* when nothing but commas was matched
int_of_group(group) ==
    LET ds == replace_commas(Chars(group))
    IN  IF ds # <<>> /\ \A k \in 1..Len(ds) : ds[k] \in Digit
        THEN Parsed(DigitsVal(ds))
        ELSE NoParse

\* `except ValueError: pass` around a parse: what still propagates to the
\* caller of the enclosing function, as a sequence of exceptions
except_ValueError_missing(parse) == IF parse.ok THEN <<>> ELSE <<"ValueError">>

except_ValueError(parse) == <<>>

\* position of the first digit of cs, 0 when there is none
FirstDigit(cs) ==
    IF \E k \in 1..Len(cs) : cs[k] \in Digit
    THEN CHOOSE k \in 1..Len(cs) :
            cs[k] \in Digit /\ \A j \in 1..(k - 1) : cs[j] \notin Digit
    ELSE 0

(***************************************************************************)
(* HuggingFaceScraper: benchmark extraction from one model page.           *)
(*                                                                         *)
(* A page (the BeautifulSoup of the response body) is                      *)
(*   a_license, meta_license, yaml_license : the text of the first anchor  *)
(*             to a license resource, the content of the license meta tag, *)
(*             the rest of the card's `license:` line; None where the page *)
(*             has none                                                    *)
(*   context, downloads, likes : group 1 of the first match of the context *)
(*             window, downloads and likes patterns, or None               *)
(*   table   : the rows of its tables in document order, each row the      *)
(*             sequence of its cell texts (stripped)                       *)
(*   text    : the matches the named-benchmark patterns find in soup.text, *)
(*             in text order, each <<group 1, group 2>>                    *)
(***************************************************************************)
\* HuggingFaceScraper._categorize_benchmark
HF_categorize_benchmark(name) ==
    LET name_lower == Lower(Chars(name))
    IN  IF AnyIn(name_lower, {Chars("code"), Chars("swe"), Chars("humaneval"),
                              Chars("livecode")})
        THEN "coding"
        ELSE IF AnyIn(name_lower, {Chars("math"), Chars("gsm"), Chars("aime"),
                                   Chars("hmmt")})
        THEN "reasoning"
        ELSE IF AnyIn(name_lower, {Chars("agent"), Chars("tool"), Chars("browse")})
        THEN "agents"
        ELSE IF AnyIn(name_lower, {Chars("mmlu"), Chars("gpqa"), Chars("reasoning")})
        THEN "reasoning"
        ELSE "general"

\* re.search(r'(\d+\.?\d*)', score_text), then float(group 1)
search_score(score_text) ==
    LET cs == Chars(score_text)
        p  == FirstDigit(cs)
    IN  IF p = 0 THEN NoParse ELSE Parsed(TokenVal(cs, p))

\* float(match.group(2)) for a group matched by [0-9.]+ : ValueError unless
\* the group has one dot at most and a digit
float_of_group(group) ==
    LET cs   == Chars(group)
        dots == {k \in 1..Len(cs) : cs[k] = "."}
    IN  IF /\ cs # <<>>
           /\ \A k \in 1..Len(cs) : cs[k] \in Digit \cup {"."}
           /\ Cardinality(dots) <= 1
           /\ \E k \in 1..Len(cs) : cs[k] \in Digit
        THEN Parsed(TokenVal(cs, 1))
        ELSE NoParse

HF_entry(name, score) ==
    [name |-> name, score |-> score, category |-> HF_categorize_benchmark(name)]

\* the table pass of _extract_benchmarks
RECURSIVE table_benchmarks(_)
table_benchmarks(rows) ==
    IF rows = <<>> THEN <<>>
    ELSE LET cells == Head(rows)
         IN  (IF Len(cells) >= 2 /\ search_score(cells[2]).ok
              THEN <<HF_entry(cells[1], search_score(cells[2]).val)>>
              ELSE <<>>)
             \o table_benchmarks(Tail(rows))

\* the patterns of _extract_benchmarks_from_text, each as the set of lower-case
\* spellings of its group 1 (re.IGNORECASE)
patterns ==
    << {Chars("mmlu-pro"), Chars("mmlu pro")},
       {Chars("gpqa-diamond"), Chars("gpqa diamond")},
       {Chars("swe-bench"), Chars("swe bench")},
       {Chars("humaneval")},
       {},
       {Chars("livecodebench")},
       {Chars("gsm8k")} >>

\* the matches of one pattern, in text order
RECURSIVE pattern_benchmarks(_, _)
pattern_benchmarks(pattern, text) ==
    IF text = <<>> THEN <<>>
    ELSE LET match == Head(text)
         IN  (IF Lower(Chars(match[1])) \in pattern /\ float_of_group(match[2]).ok
              THEN <<HF_entry(match[1], float_of_group(match[2]).val)>>
              ELSE <<>>)
             \o pattern_benchmarks(pattern, Tail(text))

\* HuggingFaceScraper._extract_benchmarks_from_text: pattern by pattern
RECURSIVE text_benchmarks(_, _)
text_benchmarks(k, text) ==
    IF k > Len(patterns) THEN <<>>
    ELSE pattern_benchmarks(patterns[k], text) \o text_benchmarks(k + 1, text)

\* _extract_benchmarks without the duplicate removal
unique_benchmarks_kept(bs, seen) == bs

\* "Remove duplicates": the loop over benchmarks with the set `seen`
RECURSIVE unique_benchmarks(_, _)
unique_benchmarks(benchmarks, seen) ==
    IF benchmarks = <<>> THEN <<>>
    ELSE LET b   == Head(benchmarks)
             key == <<b.name, b.score>>
         IN  IF key \notin seen
             THEN <<b>> \o unique_benchmarks(Tail(benchmarks), seen \cup {key})
             ELSE unique_benchmarks(Tail(benchmarks), seen)

\* HuggingFaceScraper._extract_benchmarks
extract_benchmarks(page) ==
    unique_benchmarks(table_benchmarks(page.table) \o text_benchmarks(1, page.text), {})

(***************************************************************************)
(* LLMStatsScraper: benchmarks of one leaderboard row.                     *)
(***************************************************************************)
\* LLMStatsScraper._categorize_benchmark
LS_categorize_benchmark(name) ==
    LET name_lower == Lower(Chars(name))
    IN  IF AnyIn(name_lower, {Chars("code"), Chars("human"), Chars("swe"), Chars("live")})
        THEN "coding"
        ELSE IF AnyIn(name_lower, {Chars("math"), Chars("gsm"), Chars("aime"),
                                   Chars("gpqa")})
        THEN "reasoning"
        ELSE IF AnyIn(name_lower, {Chars("mmlu"), Chars("arc"), Chars("truthful"),
                                   Chars("winogrande")})
        THEN "knowledge"
        ELSE "general"

\* LLMStatsScraper._extract_score: re.findall(r'-?\d+\.?\d*', text)[0]
extract_score(text) ==
    LET cs == Chars(text)
        p  == FirstDigit(cs)
    IN  IF p = 0 THEN NoParse
        ELSE IF p > 1 /\ cs[p - 1] = "-" THEN Parsed(0 - TokenVal(cs, p))
        ELSE Parsed(TokenVal(cs, p))

benchmark_names ==
    <<"MMLU", "Arc-Challenge", "HellaSwag", "TruthfulQA", "Winogrande", "GSM8K",
      "GPQA", "AIME", "MATH", "HumanEval">>

\* f"Benchmark_{score_index + 1}"
Benchmark_N(n) ==
    CASE n = 11 -> "Benchmark_11"
      [] n = 12 -> "Benchmark_12"
      [] OTHER  -> "Benchmark_N"

\* the loop of _parse_benchmarks_from_cells, score_index counted from 0
RECURSIVE parse_cells(_, _)
parse_cells(cells, score_index) ==
    IF cells = <<>> THEN <<>>
    ELSE LET cell  == Head(cells)
             score == extract_score(cell)
             benchmark_name ==
                 IF score_index < Len(benchmark_names)
                 THEN benchmark_names[score_index + 1]
                 ELSE Benchmark_N(score_index + 1)
         IN  IF Contains(Chars(cell), <<"%">>) /\ score.ok
             THEN <<[name     |-> benchmark_name,
                     score    |-> score.val,
                     category |-> LS_categorize_benchmark(benchmark_name)]>>
                  \o parse_cells(Tail(cells), score_index + 1)
             ELSE parse_cells(Tail(cells), score_index)

\* LLMStatsScraper._parse_benchmarks_from_cells
parse_benchmarks_from_cells(cells) == parse_cells(cells, 0)

(***************************************************************************)
(* Records.  A Python dict is a function from its keys; dict.get(k) of an  *)
(* optional string is None when the key is absent.  An Optional[Dict] is a *)
(* sequence of length 0 (None) or 1.                                       *)
(***************************************************************************)
Has(m, k) == k \in DOMAIN m

Get(m, k) == IF Has(m, k) THEN m[k] ELSE None

\* truth value of an optional string
Truthy(v) == v # None /\ v # ""

\* HuggingFaceScraper._is_open_source_license
is_open_source_license(license_name) ==
    AnyIn(Lower(Chars(license_name)),
          {Chars("mit"), Chars("apache"), Chars("apache-2.0"), Chars("gpl"),
           Chars("bsd"), Chars("cc-by"), Chars("llama"), Chars("openrail"),
           Chars("bigscience"), Chars("deepseek")})

\* HuggingFaceScraper._extract_license: the anchor to a license resource, then
\* the meta tag named license, then the license line of the card's YAML; the
\* first of them that is in the page is returned, empty or not
extract_license(page) ==
    IF page.a_license # None THEN page.a_license
    ELSE IF page.meta_license # None THEN page.meta_license
    ELSE page.yaml_license

\* the try block around int(): the field when the parse succeeds, no field on
\* ValueError
int_field(key, group) ==
    IF group # None /\ int_of_group(group).ok
    THEN key :> int_of_group(group).val
    ELSE <<>>

\* HuggingFaceScraper._extract_metadata
extract_metadata(page) == int_field("context_window", page.context)

\* HuggingFaceScraper._extract_stats
extract_stats(page) ==
    int_field("likes", page.likes) @@ int_field("downloads", page.downloads)

\* what propagates from the int() of a regex group, None when nothing matched
int_raised(group) ==
    IF group = None THEN <<>> ELSE except_ValueError(int_of_group(group))

\* what propagates from the float() of the text pass, match by match
RECURSIVE text_raised(_)
text_raised(text) ==
    IF text = <<>> THEN <<>>
    ELSE except_ValueError(float_of_group(Head(text)[2])) \o text_raised(Tail(text))

\* the exceptions that leave _parse_model_page, in the order of its steps:
\* metadata, benchmarks, stats
parse_model_page_raised(page) ==
    int_raised(page.context) \o text_raised(page.text)
        \o int_raised(page.downloads) \o int_raised(page.likes)

\* HuggingFaceScraper._parse_model_page, the fields the pipeline reads
parse_model_page(page, model_id) ==
    LET license_info == extract_license(page)
        model_data   == [model_id       |-> model_id,
                         is_open_source |-> FALSE,
                         benchmarks     |-> extract_benchmarks(page)]
        licensed     == IF Truthy(license_info)
                        THEN [license        |-> license_info,
                              is_open_source |-> is_open_source_license(license_info)]
                             @@ model_data
                        ELSE model_data
    IN  extract_stats(page) @@ extract_metadata(page) @@ licensed

\* the model pages huggingface.co answers with
PageBare ==
    [a_license |-> None, meta_license |-> None, yaml_license |-> None,
     context |-> None, downloads |-> None, likes |-> None,
     table |-> <<>>, text |-> <<>>]

PageCard ==
    [a_license |-> None, meta_license |-> None, yaml_license |-> "apache-2.0",
     context |-> "8,192", downloads |-> ",", likes |-> None,
     table   |-> << <<"MMLU", "85.5%">>, <<"GSM8K", "70">>, <<"HumanEval", "n/a">> >>,
     text    |-> << <<"GSM8K", "70">>, <<"gsm8k", "70">> >>]

Pages == {PageBare, PageCard}

\* the cells llm-stats.com shows in the row of a model
RowOf(id) ==
    CASE id = "acme/foo"  -> <<"Llama-3", "$0.60", "85.5%", "73.1%">>
      [] id = "Acme/Foo"  -> <<"Llama-3", "70">>
      [] OTHER            -> <<"Llama-3", "-5%">>

\* the record _extract_model_from_row returns for the row of id, the fields the
\* pipeline reads
primary_record(id) ==
    [model_id   |-> id,
     benchmarks |-> parse_benchmarks_from_cells(RowOf(id)),
     source     |-> "llm-stats.com"]

\* the rows query_selector_all finds: the row of a model, named by the
\* identifier _extract_model_id gives it, a header row (its name cell has
\* 'model') or a row whose inner_text() raises
HeaderRow == "<header>"

DetachedRow == "<detached>"

Rows == Ids \cup {HeaderRow, DetachedRow}

\* LLMStatsScraper._extract_model_from_row: the record, or None for a header
\* row and, through its own except clause, for a row that raises
extract_model_from_row(row) ==
    IF row \in Ids THEN <<primary_record(row)>> ELSE <<>>

\* the row loop ending at the first row that gives no record
RECURSIVE extract_models_aborting(_)
extract_models_aborting(rs) ==
    IF rs = <<>> \/ extract_model_from_row(Head(rs)) = <<>> THEN <<>>
    ELSE extract_model_from_row(Head(rs)) \o extract_models_aborting(Tail(rs))

\* the loop `for row in rows` of LLMStatsScraper._extract_models
RECURSIVE extract_models(_)
extract_models(rs) ==
    IF rs = <<>> THEN <<>>
    ELSE extract_model_from_row(Head(rs)) \o extract_models(Tail(rs))

(***************************************************************************)
(* LLMStatsScraper, cell by cell.  Here a row is [raises, cells]: whether  *)
(* its inner_text() raises (the row left the document), and the            *)
(* inner_text() of its cells; a text the code computes (model_name,        *)
(* model_id, organization) is kept as its character sequence.  A page is   *)
(*   rows   : None (<<>>) when query_selector_all raises, else <<the rows  *)
(*            the selectors find>>                                         *)
(*   source : None (<<>>) when page.content() raises, else <<the matches   *)
(*            of json_pattern in the page source>>, each match [ok, data]: *)
(*            whether json.loads accepts it, and the list it gives         *)
(***************************************************************************)
\* str.isdigit
isdigit(cs) == cs # <<>> /\ \A k \in 1..Len(cs) : cs[k] \in Digit

LowerLetters ==
    {"a","b","c","d","e","f","g","h","i","j","k","l","m",
     "n","o","p","q","r","s","t","u","v","w","x","y","z"}

\* str.isalnum of one character
isalnum(c) == c \in Digit \/ LowerChar(c) \in LowerLetters

\* str.replace(sub, '')
RECURSIVE replace(_, _)
replace(cs, sub) ==
    IF Len(cs) < Len(sub) THEN cs
    ELSE IF SubSeq(cs, 1, Len(sub)) = sub
    THEN replace(SubSeq(cs, Len(sub) + 1, Len(cs)), sub)
    ELSE <<Head(cs)>> \o replace(Tail(cs), sub)

RECURSIVE lstrip(_)
lstrip(cs) == IF cs # <<>> /\ Head(cs) = " " THEN lstrip(Tail(cs)) ELSE cs

RECURSIVE rstrip(_)
rstrip(cs) ==
    IF cs # <<>> /\ cs[Len(cs)] = " " THEN rstrip(SubSeq(cs, 1, Len(cs) - 1)) ELSE cs

\* str.strip
strip(cs) == rstrip(lstrip(cs))

\* cs.split("/")[0]
split_0(cs) ==
    IF Contains(cs, <<"/">>)
    THEN SubSeq(cs, 1, (CHOOSE k \in 1..Len(cs) :
                           cs[k] = "/" /\ \A j \in 1..(k - 1) : cs[j] # "/") - 1)
    ELSE cs

\* cell_values: the cell texts that are not empty
cell_values_of(row) == SelectSeq(row.cells, LAMBDA text : text # "")

\* the test of the name loop on one cell
looks_like_name(cell) ==
    LET cs == Chars(cell)
    IN  /\ Len(cs) > 2
        /\ ~Contains(cs, <<"$">>)
        /\ ~isdigit(cs)
        /\ \E k \in 1..Len(cs) : isalnum(cs[k])

\* position of the cell the name loop breaks at, 0 when it ends without one
model_name_index(cell_values) ==
    IF \E n \in 1..Len(cell_values) : looks_like_name(cell_values[n])
    THEN CHOOSE n \in 1..Len(cell_values) :
            /\ looks_like_name(cell_values[n])
            /\ \A j \in 1..(n - 1) : ~looks_like_name(cell_values[j])
    ELSE 0

\* any(x in model_name.lower() for x in ['rank', 'model', 'position', 'name'])
is_header(model_name) ==
    AnyIn(Lower(model_name),
          {Chars("rank"), Chars("model"), Chars("position"), Chars("name")})

\* LLMStatsScraper._extract_price: re.findall(r'\$?(\d+\.?\d*)', text)[0]
extract_price(text) ==
    LET cs == Chars(text)
        p  == FirstDigit(cs)
    IN  IF p = 0 THEN NoParse ELSE Parsed(TokenVal(cs, p))

\* the price read from cell n of cell_values: None (<<>>) or <<the float>>
price_at(cell_values, n) ==
    IF n <= Len(cell_values) /\ Contains(Chars(cell_values[n]), <<"$">>)
       /\ extract_price(cell_values[n]).ok
    THEN <<extract_price(cell_values[n]).val>>
    ELSE <<>>

\* LLMStatsScraper._extract_parameters_from_cells: None (<<>>) or <<num>> for
\* f"{num}B"
extract_parameters_from_cells(cells_) ==
    LET fits(n) == /\ isdigit(Chars(cells_[n]))
                   /\ DigitsVal(Chars(cells_[n])) \in 1..1000
    IN  IF \E n \in 1..Len(cells_) : fits(n)
        THEN <<DigitsVal(Chars(cells_[CHOOSE n \in 1..Len(cells_) :
                                         fits(n) /\ \A j \in 1..(n - 1) : ~fits(j)]))>>
        ELSE <<>>

\* org_mapping, in the order of the dict literal
org_mapping ==
    << <<"glm", "THUDM">>, <<"kimi", "MoonshotAI">>, <<"mimo", "AIDC-AI">>,
       <<"qwen", "Qwen">>, <<"yi", "01-ai">>, <<"deepseek", "deepseek-ai">>,
       <<"llama", "meta-llama">>, <<"mistral", "mistralai">>,
       <<"mixtral", "mistralai">>, <<"gemma", "google">>, <<"gemini", "google">>,
       <<"phi", "microsoft">>, <<"gpt", "openai">>, <<"claude", "anthropic">>,
       <<"nemotron", "nvidia">>, <<"hermes", "NousResearch">>,
       <<"nous", "NousResearch">>, <<"solar", "upstage">>,
       <<"commandr", "CohereForAI">>, <<"aya", "CohereForAI">> >>

\* LLMStatsScraper._extract_model_id
extract_model_id(model_name) ==
    LET name_lower == Lower(model_name)
        hits == {n \in 1..Len(org_mapping) :
                    Contains(name_lower, Chars(org_mapping[n][1]))}
        first == CHOOSE n \in hits : \A j \in hits : n <= j
    IN  IF Contains(model_name, <<"/">>) THEN model_name
        ELSE IF hits # {} THEN Chars(org_mapping[first][2]) \o <<"/">> \o model_name
        ELSE Chars("unknown") \o <<"/">> \o model_name

\* LLMStatsScraper._extract_model_from_row on the cells of a row: None (<<>>)
\* or <<the record>>
model_from_row(row) ==
    IF row.raises THEN <<>>             \* inner_text() raises: the except clause
    ELSE
    LET cell_values == cell_values_of(row)
        n           == model_name_index(cell_values)
        model_name  == IF n = 0 THEN <<>>
                       ELSE strip(replace(Chars(cell_values[n]), Chars("NEW")))
        model_id    == extract_model_id(model_name)
    IN  IF Len(cell_values) < 2 THEN <<>>
        ELSE IF Len(model_name) < 2 THEN <<>>
        ELSE IF is_header(model_name) THEN <<>>
        ELSE <<[model_id     |-> model_id,
                model_name   |-> model_name,
                organization |-> IF Contains(model_id, <<"/">>) THEN split_0(model_id)
                                 ELSE Chars("unknown"),
                benchmarks   |-> parse_benchmarks_from_cells(cell_values),
                source       |-> "llm-stats.com",
                is_open_source |-> TRUE,
                input_price_per_1m  |-> price_at(cell_values, n + 1),
                output_price_per_1m |-> price_at(cell_values, n + 2),
                parameters   |-> extract_parameters_from_cells(cell_values)]>>

\* the loop `for row in rows` of _extract_models on such rows
RECURSIVE models_from_rows(_)
models_from_rows(rs) ==
    IF rs = <<>> THEN <<>>
    ELSE model_from_row(Head(rs)) \o models_from_rows(Tail(rs))

\* LLMStatsScraper._normalize_json_model
normalize_json_model(item) ==
    LET model_name ==
            IF Truthy(Get(item, "model")) THEN item.model
            ELSE IF Truthy(Get(item, "name")) THEN item.name
            ELSE IF Has(item, "modelId") THEN item.modelId
            ELSE ""
    IN  [model_id     |-> extract_model_id(Chars(model_name)),
         model_name   |-> Chars(model_name),
         organization |-> IF Contains(Chars(model_name), <<"/">>)
                          THEN split_0(Chars(model_name))
                          ELSE Chars("unknown"),
         benchmarks   |-> <<>>,
         source       |-> "llm-stats.com",
         is_open_source |-> TRUE]

\* the loop `for item in data` on a list of dicts
RECURSIVE normalized_items(_)
normalized_items(data) ==
    IF data = <<>> THEN <<>>
    ELSE (IF Has(Head(data), "model") \/ Has(Head(data), "name")
          THEN <<normalize_json_model(Head(data))>> ELSE <<>>)
         \o normalized_items(Tail(data))

\* LLMStatsScraper._extract_from_page_source, on the matches of json_pattern
RECURSIVE extract_from_page_source(_)
extract_from_page_source(matches) ==
    IF matches = <<>> THEN <<>>
    ELSE (IF Head(matches).ok THEN normalized_items(Head(matches).data)
          ELSE <<>>)                    \* json.JSONDecodeError: continue
         \o extract_from_page_source(Tail(matches))

\* no leaderboard page at hand
NoPage == [rows |-> <<>>, source |-> <<>>]

\* LLMStatsScraper._extract_models: the list returned, and whether the except
\* clause with the fallback was entered
extract_models_of(page_) ==
    IF page_.rows # <<>>
    THEN [models |-> models_from_rows(page_.rows[1]), fallback |-> FALSE]
    ELSE IF page_.source = <<>>
    THEN [models |-> <<>>, fallback |-> TRUE]
    ELSE [models |-> extract_from_page_source(page_.source[1]), fallback |-> TRUE]

(***************************************************************************)
(* State.                                                                  *)
(***************************************************************************)
VARIABLES
    orch,            \* what the process built: "llmstats", "simple" or "scraper"
    pc,              \* position of the call in progress on it
    runs,            \* calls started so far
    used,            \* rows and identifiers handed over so far
    browser,         \* the Chromium of scrape_leaderboard: "none", "open", "closed"
    rows,            \* _extract_models' local
    leaderboard_exit, \* history: how the last scrape_leaderboard call ended
    enrich_with_hf,  \* collect_all_data's argument
    models,          \* collect_all_data's local `models` / `valid_models`
    cache,           \* HuggingFaceScraper._cache
    max_concurrent,  \* scrape_models_batch's arguments and locals
    model_ids,
    unique_ids,
    i,
    tasks,           \* the scrape_model coroutines of the batch being gathered
    results,
    bpc,             \* position of scrape_models_batch
    output_data,     \* _save_data's local
    file,            \* backend/data/models.json on disk
    last_committed,  \* history: 'last_updated' of the last snapshot written whole
    requests,        \* history: client.get calls issued, per identifier
    outcome,         \* history: how the last fetch of an identifier ended
    dispatched,      \* history: scrape_model calls of the current batch call
    fetched,         \* history: client.get calls of the current batch call
    completed,       \* history: scrape_model calls of it that have returned
    cache_writes,    \* history: assignments to self._cache[model_id], per identifier
    collector,       \* extraction on its own: whose extractor is applied,
    soup,            \*   the page handed to _extract_benchmarks,
    cells,           \*   the row handed to _parse_benchmarks_from_cells,
    benchmarks,      \*   and the list returned (none yet: <<>>, else <<list>>)
    page_id,         \* _parse_model_page's model_id argument (soup is its page)
    model_data,      \*   and how it ended: none yet <<>>, else <<[raised, data]>>
    lb_page,         \* the leaderboard page handed to _extract_models
    extracted        \*   and what came of it: none yet <<>>, else <<[models, fallback]>>

main_vars == <<orch, pc, runs, used, browser, rows, leaderboard_exit, enrich_with_hf,
               models, cache, max_concurrent, model_ids, unique_ids, i, tasks,
               results, bpc, output_data, file, last_committed,
               requests, outcome, dispatched, fetched, completed, cache_writes>>

pure_vars == <<collector, soup, cells, benchmarks, page_id, model_data, lb_page, extracted>>

vars == <<main_vars, pure_vars>>

scraper_vars == <<cache, max_concurrent, model_ids, unique_ids, i, tasks,
                  results, bpc, requests, outcome, dispatched, fetched, completed,
                  cache_writes>>

orch_vars == <<orch, pc, runs, used, enrich_with_hf, models, browser, rows,
               leaderboard_exit>>

orch_vars_but_pc == <<orch, runs, used, enrich_with_hf, models, browser, rows,
                      leaderboard_exit>>

browser_vars == <<browser, rows, leaderboard_exit>>

file_vars == <<output_data, file, last_committed>>

\* default of scrape_models_batch's max_concurrent; both orchestrators pass 3
max_concurrent_default == 3

(***************************************************************************)
(* Snapshots.  'last_updated' is datetime.now().isoformat(): the reading   *)
(* of the machine's wall clock, local time, kept here as the reading       *)
(* itself (the ISO texts of one format order as their readings do).  The   *)
(* wall clock is not the process's to control: a reading is any of         *)
(* Timestamps, whatever was read before.                                   *)
(***************************************************************************)
Timestamps == {1, 2}

\* sum(1 for m in models if m.get('hf_license') or m.get('hf_benchmarks'))
hf_enriched(ms) ==
    Cardinality({k \in 1..Len(ms) :
                    Truthy(Get(ms[k], "hf_license")) \/ Has(ms[k], "hf_benchmarks")})

\* output_data with total_count counting benchmark scores instead of models
LS_output_data_miscount(ms, now) ==
    [models      |-> ms,
     total_count |-> SumLen(ms),
     last_updated |-> now,
     metadata    |-> [primary_source    |-> "llm-stats.com",
                      secondary_source  |-> "HuggingFace",
                      hf_enriched_count |-> hf_enriched(ms),
                      total_benchmarks  |-> SumLen(ms),
                      open_source_only  |-> TRUE]]

\* output_data of LLMStatsOrchestrator._save_data
LS_output_data(ms, now) ==
    [models      |-> ms,
     total_count |-> Len(ms),
     last_updated |-> now,
     metadata    |-> [primary_source    |-> "llm-stats.com",
                      secondary_source  |-> "HuggingFace",
                      hf_enriched_count |-> hf_enriched(ms),
                      total_benchmarks  |-> SumLen(ms),
                      open_source_only  |-> TRUE]]

\* output_data of SimpleOrchestrator._save_data
S_output_data(ms, now) ==
    [models      |-> ms,
     total_count |-> Len(ms),
     last_updated |-> now,
     metadata    |-> [source |-> "HuggingFace", open_source_only |-> TRUE]]

\* the file: absent, or holding what has reached the disk.  "complete" is the
\* whole JSON text of data[1]; "empty" is a file truncated by open(.., 'w');
\* "partial" is a proper prefix of the JSON text.
Absent == [state |-> "absent", data |-> <<>>]

Committed(d) == [state |-> "complete", data |-> <<d>>]

\* a snapshot left by an earlier process
PrevSnapshot == LS_output_data(<<primary_record("acme/foo")>>, 2)

(***************************************************************************)
(* HuggingFaceScraper.scrape_models_batch and scrape_model.                *)
(***************************************************************************)
\* the order-preserving copy that does not remember what it has seen
RECURSIVE fromkeys_forgetful(_, _)
fromkeys_forgetful(ids, seen) ==
    IF ids = <<>> THEN <<>>
    ELSE <<Head(ids)>> \o fromkeys_forgetful(Tail(ids), seen)

\* list(dict.fromkeys(model_ids))
RECURSIVE fromkeys(_, _)
fromkeys(ids, seen) ==
    IF ids = <<>> THEN <<>>
    ELSE IF Head(ids) \in seen THEN fromkeys(Tail(ids), seen)
    ELSE <<Head(ids)>> \o fromkeys(Tail(ids), seen \cup {Head(ids)})

\* scrape_models_batch without the de-duplication
dedup_ids_kept(ids) == ids

dedup_ids(ids) == fromkeys(ids, {})

\* scrape_model with the cache check left out
scrape_model_start_unchecked(model_id, c) ==
    [model_id |-> model_id, pc |-> "sleep", result |-> <<>>,
     resp |-> "none", waits |-> 0, gets |-> 0]

\* scrape_model up to its first suspension: the cache check, then either the
\* cached value is returned or the coroutine sleeps self.delay
scrape_model_start(model_id, c) ==
    IF model_id \in DOMAIN c
    THEN [model_id |-> model_id, pc |-> "done", result |-> c[model_id],
          resp |-> "hit", waits |-> 0, gets |-> 0]
    ELSE [model_id |-> model_id, pc |-> "sleep", result |-> <<>>,
          resp |-> "none", waits |-> 0, gets |-> 0]

\* the slice without its upper end: unique_ids[i:]
batch_slice_unbounded(uids, from, mc) == SubSeq(uids, from + 1, Len(uids))

\* batch = unique_ids[i:i + max_concurrent]
batch_slice(uids, from, mc) == SubSeq(uids, from + 1, Min(from + mc, Len(uids)))

\* asyncio.gather(*[self.scrape_model(model_id) for model_id in batch]): every
\* coroutine runs to its first suspension before any of them is resumed
gather_start(uids, from, mc, c) ==
    LET batch == batch_slice(uids, from, mc)
    IN  [k \in 1..Len(batch) |-> scrape_model_start(batch[k], c)]

\* the batch results taken in reverse task order
RECURSIVE not_none_reversed(_)
not_none_reversed(ts) ==
    IF ts = <<>> THEN <<>> ELSE not_none_reversed(Tail(ts)) \o Head(ts).result

\* [r for r in batch_results if r is not None]
RECURSIVE not_none(_)
not_none(ts) ==
    IF ts = <<>> THEN <<>> ELSE Head(ts).result \o not_none(Tail(ts))

task_ids(ts) == [k \in 1..Len(ts) |-> ts[k].model_id]

\* the coroutines of ts that returned at the cache check
returned_at_start(ts) == Cardinality({k \in 1..Len(ts) : ts[k].pc = "done"})

\* the call of scrape_models_batch(ids, mc), up to the first suspension
batch_call(ids, mc) ==
    LET uids == dedup_ids(ids)
        ts   == gather_start(uids, 0, mc, cache)
    IN  /\ model_ids' = ids
        /\ max_concurrent' = mc
        /\ unique_ids' = uids
        /\ results' = <<>>
        /\ i' = 0
        /\ tasks' = ts
        /\ dispatched' = task_ids(ts)
        /\ fetched' = [id \in Ids |-> 0]
        /\ completed' = returned_at_start(ts)
        /\ bpc' = IF uids = <<>> THEN "done" ELSE "gather"
        /\ UNCHANGED <<cache, requests, outcome, cache_writes>>

\* scrape_model: asyncio.sleep(self.delay) is over, client.get is issued
scrape_model_get(k) ==
    /\ bpc = "gather"
    /\ k \in 1..Len(tasks)
    /\ tasks[k].pc = "sleep"
    /\ tasks' = [tasks EXCEPT ![k].pc = "get", ![k].gets = @ + 1]
    /\ requests' = [requests EXCEPT ![tasks[k].model_id] = @ + 1]
    /\ fetched' = [fetched EXCEPT ![tasks[k].model_id] = @ + 1]
    /\ UNCHANGED <<cache, max_concurrent, model_ids, unique_ids, i, results, bpc,
                   outcome, dispatched, completed,
                   cache_writes>>
    /\ UNCHANGED orch_vars /\ UNCHANGED file_vars
    /\ UNCHANGED pure_vars

\* scrape_model returning None on a 404 with the cache write left out
scrape_model_404_uncached(k) ==
    /\ bpc = "gather"
    /\ k \in 1..Len(tasks)
    /\ tasks[k].pc = "get"
    /\ tasks' = [tasks EXCEPT ![k].pc = "done", ![k].result = <<>>, ![k].resp = "404"]
    /\ outcome' = [outcome EXCEPT ![tasks[k].model_id] = "NotFound"]
    /\ completed' = completed + 1
    /\ UNCHANGED <<cache, max_concurrent, model_ids, unique_ids, i, results, bpc,
                   requests, dispatched, fetched,
                   cache_writes>>
    /\ UNCHANGED orch_vars /\ UNCHANGED file_vars
    /\ UNCHANGED pure_vars

\* scrape_model: the response has status 404
scrape_model_404(k) ==
    /\ bpc = "gather"
    /\ k \in 1..Len(tasks)
    /\ tasks[k].pc = "get"
    /\ cache' = (tasks[k].model_id :> <<>>) @@ cache
    /\ tasks' = [tasks EXCEPT ![k].pc = "done", ![k].result = <<>>, ![k].resp = "404"]
    /\ outcome' = [outcome EXCEPT ![tasks[k].model_id] = "NotFound"]
    /\ completed' = completed + 1
    /\ cache_writes' = [cache_writes EXCEPT ![tasks[k].model_id] = @ + 1]
    /\ UNCHANGED <<max_concurrent, model_ids, unique_ids, i, results, bpc,
                   requests, dispatched, fetched>>
    /\ UNCHANGED orch_vars /\ UNCHANGED file_vars
    /\ UNCHANGED pure_vars

\* scrape_model: the response has status 429; asyncio.sleep(2) begins
scrape_model_429(k) ==
    /\ bpc = "gather"
    /\ k \in 1..Len(tasks)
    /\ tasks[k].pc = "get"
    /\ tasks' = [tasks EXCEPT ![k].pc = "backoff", ![k].resp = "429", ![k].waits = @ + 1]
    /\ UNCHANGED <<cache, max_concurrent, model_ids, unique_ids, i, results, bpc,
                   requests, outcome, dispatched, fetched, completed,
                   cache_writes>>
    /\ UNCHANGED orch_vars /\ UNCHANGED file_vars
    /\ UNCHANGED pure_vars

\* scrape_model: asyncio.sleep(2) is over, return None
scrape_model_backoff_done(k) ==
    /\ bpc = "gather"
    /\ k \in 1..Len(tasks)
    /\ tasks[k].pc = "backoff"
    /\ tasks' = [tasks EXCEPT ![k].pc = "done", ![k].result = <<>>]
    /\ outcome' = [outcome EXCEPT ![tasks[k].model_id] = "RateLimited"]
    /\ completed' = completed + 1
    /\ UNCHANGED <<cache, max_concurrent, model_ids, unique_ids, i, results, bpc,
                   requests, dispatched, fetched,
                   cache_writes>>
    /\ UNCHANGED orch_vars /\ UNCHANGED file_vars
    /\ UNCHANGED pure_vars

\* scrape_model: a response that passes raise_for_status; the page is parsed,
\* cached and returned
scrape_model_200(k, page) ==
    /\ bpc = "gather"
    /\ k \in 1..Len(tasks)
    /\ tasks[k].pc = "get"
    /\ LET result == parse_model_page(page, tasks[k].model_id)
       IN  IF parse_model_page_raised(page) = <<>>
           THEN /\ cache' = (tasks[k].model_id :> <<result>>) @@ cache
                /\ cache_writes' = [cache_writes EXCEPT ![tasks[k].model_id] = @ + 1]
                /\ tasks' = [tasks EXCEPT ![k].pc = "done", ![k].result = <<result>>,
                                          ![k].resp = "200"]
                /\ outcome' = [outcome EXCEPT ![tasks[k].model_id] = "Success"]
           ELSE \* caught by `except Exception`
                /\ UNCHANGED <<cache, cache_writes>>
                /\ tasks' = [tasks EXCEPT ![k].pc = "done", ![k].result = <<>>,
                                          ![k].resp = "Exception"]
                /\ outcome' = [outcome EXCEPT ![tasks[k].model_id] = "TransientError"]
    /\ completed' = completed + 1
    /\ UNCHANGED <<max_concurrent, model_ids, unique_ids, i, results, bpc,
                   requests, dispatched, fetched>>
    /\ UNCHANGED orch_vars /\ UNCHANGED file_vars
    /\ UNCHANGED pure_vars

\* scrape_model: client.get or raise_for_status raises.  e is
\*   "HTTPError429"  an httpx.HTTPError with '429' in str(e)
\*   "HTTPError"     any other httpx.HTTPError (timeout, connection, 5xx)
\*   "Exception"     anything else
\* Each branch prints and returns None.
scrape_model_raises(k, e) ==
    /\ bpc = "gather"
    /\ k \in 1..Len(tasks)
    /\ tasks[k].pc = "get"
    /\ tasks' = [tasks EXCEPT ![k].pc = "done", ![k].result = <<>>, ![k].resp = e]
    /\ outcome' = [outcome EXCEPT ![tasks[k].model_id] =
                       IF e = "HTTPError429" THEN "RateLimited" ELSE "TransientError"]
    /\ completed' = completed + 1
    /\ UNCHANGED <<cache, max_concurrent, model_ids, unique_ids, i, results, bpc,
                   requests, dispatched, fetched,
                   cache_writes>>
    /\ UNCHANGED orch_vars /\ UNCHANGED file_vars
    /\ UNCHANGED pure_vars

\* scrape_models_batch: gather returns; results.extend(...); then either the
\* inter-batch asyncio.sleep(0.5) begins or the loop ends and results is returned
gather_done ==
    /\ bpc = "gather"
    /\ \A k \in 1..Len(tasks) : tasks[k].pc = "done"
    /\ results' = results \o not_none(tasks)
    /\ tasks' = <<>>
    /\ bpc' = IF i + max_concurrent < Len(unique_ids) THEN "sleep" ELSE "done"
    /\ UNCHANGED <<cache, max_concurrent, model_ids, unique_ids, i,
                   requests, outcome, dispatched, fetched, completed,
                   cache_writes>>
    /\ UNCHANGED orch_vars /\ UNCHANGED file_vars
    /\ UNCHANGED pure_vars

\* the next batch gathered while coroutines of the current one are suspended
next_batch_unawaited ==
    /\ bpc = "gather"
    /\ i + max_concurrent < Len(unique_ids)
    /\ i' = i + max_concurrent
    /\ tasks' = gather_start(unique_ids, i + max_concurrent, max_concurrent, cache)
    /\ dispatched' = dispatched \o task_ids(tasks')
    /\ completed' = completed + returned_at_start(tasks')
    /\ bpc' = "gather"
    /\ UNCHANGED <<cache, max_concurrent, model_ids, unique_ids, results,
                   requests, outcome, fetched,
                   cache_writes>>
    /\ UNCHANGED orch_vars /\ UNCHANGED file_vars
    /\ UNCHANGED pure_vars

\* scrape_models_batch: the inter-batch sleep is over, the next batch is gathered
next_batch ==
    /\ bpc = "sleep"
    /\ i' = i + max_concurrent
    /\ tasks' = gather_start(unique_ids, i + max_concurrent, max_concurrent, cache)
    /\ dispatched' = dispatched \o task_ids(tasks')
    /\ completed' = completed + returned_at_start(tasks')
    /\ bpc' = "gather"
    /\ UNCHANGED <<cache, max_concurrent, model_ids, unique_ids, results,
                   requests, outcome, fetched,
                   cache_writes>>
    /\ UNCHANGED orch_vars /\ UNCHANGED file_vars
    /\ UNCHANGED pure_vars

\* scrape_models_batch has returned: its locals are gone
batch_return ==
    /\ bpc' = "idle"
    /\ model_ids' = <<>>
    /\ unique_ids' = <<>>
    /\ i' = 0
    /\ tasks' = <<>>
    /\ results' = <<>>
    /\ dispatched' = <<>>
    /\ fetched' = [id \in Ids |-> 0]
    /\ completed' = 0
    /\ max_concurrent' = max_concurrent_default
    /\ UNCHANGED <<cache, requests, outcome, cache_writes>>

(***************************************************************************)
(* LLMStatsOrchestrator.                                                   *)
(***************************************************************************)
hf_url(model_id) == <<"https://huggingface.co/", model_id>>

\* hf_data_map = {m['model_id']: m for m in hf_models if m.get('model_id')}
hf_data_map(hf_models) ==
    LET keyed == {k \in 1..Len(hf_models) : Truthy(Get(hf_models[k], "model_id"))}
        keys  == {hf_models[k].model_id : k \in keyed}
        last(id) == CHOOSE k \in keyed :
                        /\ hf_models[k].model_id = id
                        /\ \A j \in keyed : hf_models[j].model_id = id => j <= k
    IN  [id \in keys |-> hf_models[last(id)]]

\* the merge written {**model, **hf_data, ...}: the HuggingFace record's own
\* keys, 'benchmarks' among them, replace the primary record's
merged_model_overwrites(model, hf_data) ==
    LET model_id == Get(model, "model_id")
    IN  [hf_license |-> Get(hf_data, "license"),
         hf_url     |-> hf_url(model_id)] @@ hf_data @@ model

\* merged_model = {**model, 'hf_license': ..., ..., 'hf_url': ...}, and
\* merged_model['hf_benchmarks'] when the HuggingFace record has benchmarks
merged_model(model, hf_data) ==
    LET model_id == Get(model, "model_id")
        merged   == [hf_license        |-> Get(hf_data, "license"),
                     hf_parameters     |-> Get(hf_data, "parameters"),
                     hf_context_window |-> Get(hf_data, "context_window"),
                     hf_downloads      |-> Get(hf_data, "downloads"),
                     hf_likes          |-> Get(hf_data, "likes"),
                     hf_created_at     |-> Get(hf_data, "created_at"),
                     hf_last_modified  |-> Get(hf_data, "last_modified"),
                     hf_url            |-> hf_url(model_id)] @@ model
    IN  IF Has(hf_data, "benchmarks") /\ hf_data.benchmarks # <<>>
        THEN ("hf_benchmarks" :> hf_data.benchmarks) @@ merged
        ELSE merged

\* one turn of the loop `for model in models` of _enrich_with_huggingface
enrich_model(model, map) ==
    LET model_id == Get(model, "model_id")
    IN  IF model_id \in DOMAIN map
        THEN merged_model(model, map[model_id])
        ELSE ("hf_url" :> hf_url(model_id)) @@ model

\* the fusion as an inner join: only the models HuggingFace data came for
enrich_with_huggingface_inner(ms, hf_models) ==
    LET found == SelectSeq(ms, LAMBDA m : Get(m, "model_id") \in DOMAIN hf_data_map(hf_models))
    IN  [k \in 1..Len(found) |-> enrich_model(found[k], hf_data_map(hf_models))]

\* LLMStatsOrchestrator._enrich_with_huggingface, after the batch returned
enrich_with_huggingface(ms, hf_models) ==
    [k \in 1..Len(ms) |-> enrich_model(ms[k], hf_data_map(hf_models))]

\* model_ids = [m['model_id'] for m in models if m.get('model_id')]
RECURSIVE ids_of(_)
ids_of(ms) ==
    IF ms = <<>> THEN <<>>
    ELSE (IF Truthy(Get(Head(ms), "model_id")) THEN <<Head(ms).model_id>> ELSE <<>>)
         \o ids_of(Tail(ms))

\* collect_all_data(enrich_with_hf) is called; scrape_leaderboard launches the
\* browser and opens a page; page.goto is awaited
LS_collect_all_data(enrich) ==
    /\ orch = "llmstats"
    /\ pc = "idle"
    /\ runs < MaxRuns
    /\ runs' = runs + 1
    /\ enrich_with_hf' = enrich
    /\ browser' = "open"
    /\ leaderboard_exit' = "none"
    /\ pc' = "goto"
    /\ UNCHANGED <<orch, used, models, rows>>
    /\ UNCHANGED scraper_vars /\ UNCHANGED file_vars
    /\ UNCHANGED pure_vars

\* page.goto returns; page.wait_for_selector is awaited
LS_goto_done ==
    /\ orch = "llmstats"
    /\ pc = "goto"
    /\ pc' = "wait"
    /\ UNCHANGED orch_vars_but_pc
    /\ UNCHANGED scraper_vars /\ UNCHANGED file_vars
    /\ UNCHANGED pure_vars

\* page.goto or page.wait_for_selector raises, with the finally clause left out
LS_leaderboard_fails_unclosed(e) ==
    /\ orch = "llmstats"
    /\ pc \in {"goto", "wait"}
    /\ leaderboard_exit' = e
    /\ models' = <<>>
    /\ pc' = "idle"
    /\ UNCHANGED <<orch, runs, used, enrich_with_hf, rows, browser>>
    /\ UNCHANGED scraper_vars /\ UNCHANGED file_vars
    /\ UNCHANGED pure_vars

\* page.goto or page.wait_for_selector raises e, PlaywrightTimeoutError or
\* another Exception: the except clause returns [], the finally clause closes
\* the browser, and collect_all_data returns [] at `if not models`
LS_leaderboard_fails(e) ==
    /\ orch = "llmstats"
    /\ pc \in {"goto", "wait"}
    /\ browser' = "closed"
    /\ leaderboard_exit' = e
    /\ models' = <<>>
    /\ pc' = "idle"
    /\ UNCHANGED <<orch, runs, used, enrich_with_hf, rows>>
    /\ UNCHANGED scraper_vars /\ UNCHANGED file_vars
    /\ UNCHANGED pure_vars

\* wait_for_selector returns, asyncio.sleep(3) passes and _extract_models finds
\* the rows rs
LS_rows_found(rs) ==
    /\ orch = "llmstats"
    /\ pc = "wait"
    /\ Len(rs) <= MaxIds - used
    /\ used' = used + Len(rs)
    /\ rows' = rs
    /\ pc' = "extract"
    /\ UNCHANGED <<orch, runs, enrich_with_hf, models, browser, leaderboard_exit>>
    /\ UNCHANGED scraper_vars /\ UNCHANGED file_vars
    /\ UNCHANGED pure_vars

\* the row loop ends and scrape_leaderboard returns its models, closing the
\* browser; collect_all_data returns [] at once, or enriches, or saves
LS_leaderboard_returns ==
    /\ orch = "llmstats"
    /\ pc = "extract"
    /\ browser' = "closed"
    /\ leaderboard_exit' = "success"
    /\ rows' = <<>>
    /\ LET ms == extract_models(rows)
       IN  IF ms = <<>>
           THEN /\ pc' = "idle"
                /\ models' = <<>>
                /\ UNCHANGED scraper_vars
           ELSE IF enrich_with_hf
           THEN /\ pc' = "hf"
                /\ models' = ms
                /\ batch_call(ids_of(ms), max_concurrent_default)
           ELSE /\ pc' = "save"
                /\ models' = ms
                /\ UNCHANGED scraper_vars
    /\ UNCHANGED <<orch, runs, used, enrich_with_hf>>
    /\ UNCHANGED file_vars
    /\ UNCHANGED pure_vars

\* scrape_models_batch returns into _enrich_with_huggingface, which merges
LS_enriched ==
    /\ orch = "llmstats"
    /\ pc = "hf"
    /\ bpc = "done"
    /\ models' = enrich_with_huggingface(models, results)
    /\ pc' = "save"
    /\ batch_return
    /\ UNCHANGED <<orch, runs, used, enrich_with_hf>>
    /\ UNCHANGED browser_vars
    /\ UNCHANGED file_vars
    /\ UNCHANGED pure_vars

(***************************************************************************)
(* SimpleOrchestrator.                                                     *)
(***************************************************************************)
\* collect_all_data is called; fetch_models_from_hf_api is awaited
S_collect_all_data ==
    /\ orch = "simple"
    /\ pc = "idle"
    /\ runs < MaxRuns
    /\ runs' = runs + 1
    /\ pc' = "api"
    /\ UNCHANGED <<orch, used, enrich_with_hf, models>>
    /\ UNCHANGED browser_vars
    /\ UNCHANGED scraper_vars /\ UNCHANGED file_vars
    /\ UNCHANGED pure_vars

\* fetch_models_from_hf_api returns ids (the API's list or the fallback list,
\* cut to max_models); scrape_models_batch is awaited
S_api_returns(ids) ==
    /\ orch = "simple"
    /\ pc = "api"
    /\ Len(ids) <= MaxIds - used
    /\ used' = used + Len(ids)
    /\ pc' = "hf"
    /\ batch_call(ids, max_concurrent_default)
    /\ UNCHANGED <<orch, runs, enrich_with_hf, models>>
    /\ UNCHANGED browser_vars
    /\ UNCHANGED file_vars
    /\ UNCHANGED pure_vars

\* scrape_models_batch returns; valid_models = [m for m in models if m.get('model_id')]
S_scraped ==
    /\ orch = "simple"
    /\ pc = "hf"
    /\ bpc = "done"
    /\ models' = SelectSeq(results, LAMBDA m : Truthy(Get(m, "model_id")))
    /\ pc' = "save"
    /\ batch_return
    /\ UNCHANGED <<orch, runs, used, enrich_with_hf>>
    /\ UNCHANGED browser_vars
    /\ UNCHANGED file_vars
    /\ UNCHANGED pure_vars

(***************************************************************************)
(* A direct caller of the scraper, as huggingface_scraper.py's own test()   *)
(* is: scrape_models_batch with any list and any max_concurrent up to the  *)
(* default.                                                                *)
(***************************************************************************)
HF_scrape_models_batch(ids, mc) ==
    /\ orch = "scraper"
    /\ pc = "idle"
    /\ runs < MaxRuns
    /\ Len(ids) <= MaxIds - used
    /\ runs' = runs + 1
    /\ used' = used + Len(ids)
    /\ pc' = "hf"
    /\ batch_call(ids, mc)
    /\ UNCHANGED <<orch, enrich_with_hf, models>>
    /\ UNCHANGED browser_vars
    /\ UNCHANGED file_vars
    /\ UNCHANGED pure_vars

HF_returned ==
    /\ orch = "scraper"
    /\ pc = "hf"
    /\ bpc = "done"
    /\ pc' = "idle"
    /\ batch_return
    /\ UNCHANGED <<orch, runs, used, enrich_with_hf, models>>
    /\ UNCHANGED browser_vars
    /\ UNCHANGED file_vars
    /\ UNCHANGED pure_vars

(***************************************************************************)
(* Cancellation.  The task running collect_all_data or scrape_models_batch *)
(* is cancelled from outside (task.cancel(), asyncio.wait_for, or          *)
(* asyncio.run winding down on SIGINT): asyncio.CancelledError is raised   *)
(* at the await the task is suspended at; a task suspended in gather has   *)
(* it raised in every child that has not returned.  No function of the     *)
(* repository names CancelledError; what happens is decided by the         *)
(* `except Exception` clauses the exception passes through.                *)
(***************************************************************************)
\* an `except Exception` clause that caught asyncio.CancelledError too
except_Exception_broad(e) == TRUE

\* whether an `except Exception` clause catches e: asyncio.CancelledError
\* derives from BaseException, the other exceptions of the model from Exception
except_Exception(e) == e # "CancelledError"

\* the children of gather that have not returned
suspended(ts) == {k \in 1..Len(ts) : ts[k].pc # "done"}

\* scrape_leaderboard is cancelled at page.goto, page.wait_for_selector,
\* asyncio.sleep(3) or an await of _extract_models: no except clause catches
\* it, the finally clause closes the browser, and the exception leaves
\* collect_all_data
LS_leaderboard_cancelled ==
    /\ orch = "llmstats"
    /\ pc \in {"goto", "wait", "extract"}
    /\ ~except_Exception("CancelledError")
    /\ browser' = "closed"
    /\ leaderboard_exit' = "CancelledError"
    /\ rows' = <<>>
    /\ models' = <<>>
    /\ pc' = "cancelled"
    /\ UNCHANGED <<orch, runs, used, enrich_with_hf>>
    /\ UNCHANGED scraper_vars /\ UNCHANGED file_vars
    /\ UNCHANGED pure_vars

\* fetch_models_from_hf_api is cancelled at client.get: its `except Exception`
\* does not catch it, and the exception leaves collect_all_data
S_api_cancelled ==
    /\ orch = "simple"
    /\ pc = "api"
    /\ ~except_Exception("CancelledError")
    /\ pc' = "cancelled"
    /\ UNCHANGED <<orch, runs, used, enrich_with_hf, models>>
    /\ UNCHANGED browser_vars
    /\ UNCHANGED scraper_vars /\ UNCHANGED file_vars
    /\ UNCHANGED pure_vars

\* scrape_models_batch is cancelled at gather or at the inter-batch sleep.
\* Each suspended scrape_model has CancelledError raised at its await
\* (asyncio.sleep or client.get), inside its try: where `except Exception`
\* catches it the coroutine prints and returns None and the batch goes on;
\* where it does not, the exception leaves scrape_model, scrape_models_batch
\* and the caller, whose locals are gone.
batch_cancelled ==
    /\ pc = "hf"
    /\ \/ bpc = "sleep"
       \/ bpc = "gather" /\ suspended(tasks) # {}
    /\ outcome' = [id \in Ids |->
                     IF \E k \in suspended(tasks) : tasks[k].model_id = id
                     THEN "Cancelled" ELSE outcome[id]]
    /\ IF bpc = "gather" /\ except_Exception("CancelledError")
       THEN /\ tasks' = [k \in 1..Len(tasks) |->
                            IF k \in suspended(tasks)
                            THEN [tasks[k] EXCEPT !.pc = "done", !.result = <<>>,
                                                  !.resp = "CancelledError"]
                            ELSE tasks[k]]
            /\ completed' = Len(dispatched)
            /\ UNCHANGED <<pc, models, bpc, model_ids, unique_ids, i, results,
                           dispatched, fetched, max_concurrent>>
       ELSE /\ pc' = "cancelled"
            /\ models' = <<>>
            /\ bpc' = "idle"
            /\ model_ids' = <<>>
            /\ unique_ids' = <<>>
            /\ i' = 0
            /\ tasks' = <<>>
            /\ results' = <<>>
            /\ dispatched' = <<>>
            /\ fetched' = [id \in Ids |-> 0]
            /\ completed' = 0
            /\ max_concurrent' = max_concurrent_default
    /\ UNCHANGED <<cache, requests, cache_writes>>
    /\ UNCHANGED <<orch, runs, used, enrich_with_hf>>
    /\ UNCHANGED browser_vars
    /\ UNCHANGED file_vars
    /\ UNCHANGED pure_vars

(***************************************************************************)
(* _save_data of both orchestrators, and the API's load_data.  The API is  *)
(* another process that may read the file in any state of this one.        *)
(***************************************************************************)
\* output_data is built with datetime.now() reading `now`, the directory made,
\* and open(output_file, 'w') truncates the file
save_data_open(now) ==
    /\ pc = "save"
    /\ output_data' = <<IF orch = "llmstats" THEN LS_output_data(models, now)
                        ELSE S_output_data(models, now)>>
    /\ file' = [state |-> "empty", data |-> <<>>]
    /\ pc' = "write"
    /\ UNCHANGED last_committed
    /\ UNCHANGED orch_vars_but_pc
    /\ UNCHANGED scraper_vars
    /\ UNCHANGED pure_vars

\* json.dump is writing: a first part of the text has reached the disk
save_data_flush ==
    /\ pc = "write"
    /\ file.state = "empty"
    /\ file' = [state |-> "partial", data |-> <<>>]
    /\ UNCHANGED <<output_data, last_committed>>
    /\ UNCHANGED orch_vars /\ UNCHANGED scraper_vars
    /\ UNCHANGED pure_vars

\* json.dump is done and the with-block closes the file; collect_all_data returns
save_data_close ==
    /\ pc = "write"
    /\ file' = Committed(output_data[1])
    /\ last_committed' = <<output_data[1].last_updated>>
    /\ output_data' = <<>>
    /\ models' = <<>>
    /\ pc' = "idle"
    /\ UNCHANGED <<orch, runs, used, enrich_with_hf>>
    /\ UNCHANGED browser_vars
    /\ UNCHANGED scraper_vars
    /\ UNCHANGED pure_vars

\* mkdir, open, write or close raises OSError: the exception leaves
\* collect_all_data with the file as it is
save_data_raises ==
    /\ pc \in {"save", "write"}
    /\ output_data' = <<>>
    /\ models' = <<>>
    /\ pc' = "idle"
    /\ UNCHANGED <<file, last_committed>>
    /\ UNCHANGED <<orch, runs, used, enrich_with_hf>>
    /\ UNCHANGED browser_vars
    /\ UNCHANGED scraper_vars
    /\ UNCHANGED pure_vars

\* api/main.py load_data, a read of the file f that changes nothing: the
\* default when the file is absent, else json.load, which raises
\* JSONDecodeError on anything but a whole JSON text
load_data(f) ==
    CASE f.state = "absent"   -> [raised |-> FALSE, data |-> <<>>]
      [] f.state = "complete" -> [raised |-> FALSE, data |-> f.data]
      [] OTHER                -> [raised |-> TRUE, data |-> <<>>]

(***************************************************************************)
(* The specification.                                                      *)
(***************************************************************************)
Raised == {"HTTPError429", "HTTPError", "Exception"}

\* a fresh instance, no call made yet
Fresh ==
    /\ pc = "idle"
    /\ runs = 0
    /\ used = 0
    /\ browser = "none"
    /\ rows = <<>>
    /\ leaderboard_exit = "none"
    /\ enrich_with_hf = FALSE
    /\ models = <<>>
    /\ cache = <<>>
    /\ max_concurrent = max_concurrent_default
    /\ model_ids = <<>>
    /\ unique_ids = <<>>
    /\ i = 0
    /\ tasks = <<>>
    /\ results = <<>>
    /\ bpc = "idle"
    /\ output_data = <<>>
    /\ requests = [id \in Ids |-> 0]
    /\ outcome = [id \in Ids |-> "none"]
    /\ dispatched = <<>>
    /\ fetched = [id \in Ids |-> 0]
    /\ completed = 0
    /\ cache_writes = [id \in Ids |-> 0]

Init ==
    /\ orch \in {"llmstats", "simple", "scraper"}
    /\ file \in {Absent, Committed(PrevSnapshot)}
    /\ last_committed = IF file = Absent THEN <<>> ELSE <<PrevSnapshot.last_updated>>
    /\ Fresh
    /\ collector = "none"
    /\ soup = PageBare
    /\ cells = <<>>
    /\ benchmarks = <<>>
    /\ page_id = ""
    /\ model_data = <<>>
    /\ lb_page = NoPage
    /\ extracted = <<>>

Next ==
    \/ \E enrich \in BOOLEAN : LS_collect_all_data(enrich)
    \/ LS_goto_done
    \/ \E e \in {"TimeoutError", "Exception"} : LS_leaderboard_fails(e)
    \/ \E rs \in SeqsUpTo(Rows, MaxIds) : LS_rows_found(rs)
    \/ LS_leaderboard_returns
    \/ LS_enriched
    \/ S_collect_all_data
    \/ \E ids \in SeqsUpTo(Ids, MaxIds) : S_api_returns(ids)
    \/ S_scraped
    \/ \E ids \in SeqsUpTo(Ids, MaxIds), mc \in 1..max_concurrent_default :
           HF_scrape_models_batch(ids, mc)
    \/ HF_returned
    \/ \E k \in 1..max_concurrent_default : scrape_model_get(k)
    \/ \E k \in 1..max_concurrent_default : scrape_model_404(k)
    \/ \E k \in 1..max_concurrent_default : scrape_model_429(k)
    \/ \E k \in 1..max_concurrent_default : scrape_model_backoff_done(k)
    \/ \E k \in 1..max_concurrent_default, page \in Pages : scrape_model_200(k, page)
    \/ \E k \in 1..max_concurrent_default, e \in Raised : scrape_model_raises(k, e)
    \/ gather_done
    \/ next_batch
    \/ \E now \in Timestamps : save_data_open(now)
    \/ save_data_flush
    \/ save_data_close
    \/ save_data_raises
    \/ LS_leaderboard_cancelled
    \/ S_api_cancelled
    \/ batch_cancelled

Spec == Init /\ [][Next]_vars

(***************************************************************************)
(* Benchmark extraction on its own: each collector's extractor applied to  *)
(* one input drawn from the texts below.                                   *)
(***************************************************************************)
\* rows of a page's tables
MaxRows == 2
\* matches of the named-benchmark patterns in a page's text
MaxMatches == 2
\* cells of a leaderboard row
MaxCells == 3

TableRows ==
    {<<name, score_text>> : name \in {"MMLU", "GSM8K"},
                            score_text \in {"85.5%", "85.50", "70", "n/a"}}
      \cup {<<"MMLU">>}

TextMatches ==
    {<<"GSM8K", "70">>, <<"gsm8k", "70">>, <<"GSM8K", "85.5">>,
     <<"GSM8K", "1.2.3">>, <<"HumanEval", "85.50">>}

RowCells == {"Llama-3", "$0.60", "85.5%", "73.1%", "-5%", "70", "n/a"}

InitBenchmarks ==
    /\ orch = "scraper"
    /\ file = Absent
    /\ last_committed = <<>>
    /\ Fresh
    /\ collector \in {"hf", "llmstats"}
    /\ soup \in {[PageBare EXCEPT !.table = table, !.text = text] :
                    table \in (IF collector = "hf" THEN SeqsUpTo(TableRows, MaxRows)
                               ELSE {<<>>}),
                    text  \in (IF collector = "hf" THEN SeqsUpTo(TextMatches, MaxMatches)
                               ELSE {<<>>})}
    /\ cells \in (IF collector = "llmstats" THEN SeqsUpTo(RowCells, MaxCells) ELSE {<<>>})
    /\ benchmarks = <<>>
    /\ page_id = ""
    /\ model_data = <<>>
    /\ lb_page = NoPage
    /\ extracted = <<>>

\* HuggingFaceScraper._extract_benchmarks(soup)
HF_extract_benchmarks ==
    /\ collector = "hf"
    /\ benchmarks = <<>>
    /\ benchmarks' = <<extract_benchmarks(soup)>>
    /\ UNCHANGED <<collector, soup, cells, page_id, model_data, lb_page, extracted>>
    /\ UNCHANGED main_vars

\* LLMStatsScraper._parse_benchmarks_from_cells(cells)
LS_parse_benchmarks ==
    /\ collector = "llmstats"
    /\ benchmarks = <<>>
    /\ benchmarks' = <<parse_benchmarks_from_cells(cells)>>
    /\ UNCHANGED <<collector, soup, cells, page_id, model_data, lb_page, extracted>>
    /\ UNCHANGED main_vars

NextBenchmarks == HF_extract_benchmarks \/ LS_parse_benchmarks

SpecBenchmarks == InitBenchmarks /\ [][NextBenchmarks]_vars

(***************************************************************************)
(* Page extraction on its own: _parse_model_page applied to one page and   *)
(* one identifier.                                                         *)
(***************************************************************************)
PageIds == {"acme/foo-7b", "acme/foo"}

PageTableRows == {<<"MMLU", "85.5%">>, <<"MMLU", "n/a">>}

PageTextMatches == {<<"GSM8K", "70">>, <<"GSM8K", "1.2.3">>}

InitPage ==
    /\ orch = "scraper"
    /\ file = Absent
    /\ last_committed = <<>>
    /\ Fresh
    /\ collector = "page"
    /\ soup \in [a_license    : {None, "Proprietary"},
                 meta_license : {None, ""},
                 yaml_license : {None, "apache-2.0"},
                 context      : {None, "8,192", ","},
                 downloads    : {None, "1,234", ","},
                 likes        : {None, "70"},
                 table        : SeqsUpTo(PageTableRows, MaxRows),
                 text         : SeqsUpTo(PageTextMatches, MaxMatches)]
    /\ cells = <<>>
    /\ benchmarks = <<>>
    /\ page_id \in PageIds
    /\ model_data = <<>>
    /\ lb_page = NoPage
    /\ extracted = <<>>

\* HuggingFaceScraper._parse_model_page(html, model_id): it returns its record
\* or an exception leaves it
HF_parse_model_page ==
    /\ collector = "page"
    /\ model_data = <<>>
    /\ model_data' =
           IF parse_model_page_raised(soup) = <<>>
           THEN <<[raised |-> FALSE, data |-> <<parse_model_page(soup, page_id)>>]>>
           ELSE <<[raised |-> TRUE, data |-> <<>>]>>
    /\ UNCHANGED <<collector, soup, cells, benchmarks, page_id, lb_page, extracted>>
    /\ UNCHANGED main_vars

NextPage == HF_parse_model_page

SpecPage == InitPage /\ [][NextPage]_vars

(***************************************************************************)
(* The rendered collector's extraction on its own: _extract_models on one  *)
(* page, which has one row of any cells, or some of the rows below, or     *)
(* whose row query raises.                                                 *)
(***************************************************************************)
\* cell texts: a flag (two code points), names, prices, scores, a percent
\* cell without a number, a dash filler, a count, an empty cell
LbCells ==
    {"US", "Llama-3-70B", "GLM NEW", "Zephyr", "acme/foo-7b", "Model",
     "$0.60", "85.2%", "n/a%", "---", "358", ""}

LbRow(cs) == [raises |-> FALSE, cells |-> cs]

\* the row of the example of spec.md section 4.2
ExampleRow == LbRow(<<"US", "Llama-3-70B", "$0.60", "$0.80", "85.2%", "73.1%">>)

\* a row with more scores than benchmark_names has names
LongRow ==
    LbRow(<<"DeepSeek-Llama", "85.2%", "85.2%", "85.2%", "85.2%", "85.2%", "85.2%",
            "85.2%", "85.2%", "85.2%", "85.2%", "73.1%">>)

LbRows == {ExampleRow, LongRow, LbRow(<<"Model", "85.2%">>),
           [raises |-> TRUE, cells |-> <<>>]}

JsonMatches ==
    {[ok |-> FALSE, data |-> <<>>],
     [ok |-> TRUE, data |-> <<[model |-> "Llama-3-70B"]>>],
     [ok |-> TRUE, data |-> <<[name |-> "acme/foo-7b"], [modelId |-> "Zephyr"]>>],
     [ok |-> TRUE, data |-> <<[model |-> "", name |-> "Zephyr"]>>]}

Sources == {<<>>} \cup {<<ms>> : ms \in SeqsUpTo(JsonMatches, MaxMatches)}

LbPages ==
    {[rows |-> <<rs>>, source |-> <<>>] :
        rs \in {<<LbRow(cs)>> : cs \in SeqsUpTo(LbCells, MaxCells)}}
    \cup {[rows |-> <<rs>>, source |-> src] :
             rs \in SeqsUpTo(LbRows, MaxRows),
             src \in {<<>>, << <<[ok |-> TRUE, data |-> <<[model |-> "Llama-3-70B"]>>]>> >>}}
    \cup {[rows |-> <<>>, source |-> src] : src \in Sources}

InitLeaderboard ==
    /\ orch = "scraper"
    /\ file = Absent
    /\ last_committed = <<>>
    /\ Fresh
    /\ collector = "leaderboard"
    /\ soup = PageBare
    /\ cells = <<>>
    /\ benchmarks = <<>>
    /\ page_id = ""
    /\ model_data = <<>>
    /\ lb_page \in LbPages
    /\ extracted = <<>>

\* LLMStatsScraper._extract_models(page)
LS_extract_models ==
    /\ collector = "leaderboard"
    /\ extracted = <<>>
    /\ extracted' = <<extract_models_of(lb_page)>>
    /\ UNCHANGED <<collector, soup, cells, benchmarks, page_id, model_data, lb_page>>
    /\ UNCHANGED main_vars

NextLeaderboard == LS_extract_models

SpecLeaderboard == InitLeaderboard /\ [][NextLeaderboard]_vars

(***************************************************************************)
(* Properties.                                                             *)
(***************************************************************************)
\* how often id occurs in the sequence s
Count(s, id) == Cardinality({k \in 1..Len(s) : s[k] = id})

\* C1, as claimed: fetching the same identifier a second time never issues a
\* second network request, whatever the outcome of the first fetch was.
C1_NeverSecondRequest == \A id \in Ids : requests[id] <= 1

\* C1, amended: once a fetch of an identifier has ended in Success or NotFound,
\* no later scrape_model call of the instance issues a request for it.
C1_CachedNeverRefetched ==
    [][\A id \in Ids :
          outcome[id] \in {"Success", "NotFound"} => requests'[id] = requests[id]]_vars

\* a later call has dispatched an identifier fetched before and answered it
\* from the cache
C1_Witness ==
    /\ runs = 2
    /\ \E k \in 1..Len(tasks) :
          /\ tasks[k].resp = "hit"
          /\ outcome[tasks[k].model_id] \in {"Success", "NotFound"}
          /\ requests[tasks[k].model_id] = 1

\* C2, as claimed: at every point of _save_data the file a reader can open is a
\* complete snapshot (the previous one or the new one), never an empty,
\* truncated or partially written one.
C2_AtomicCommit ==
    /\ file.state \in {"absent", "complete"}
    /\ ~load_data(file).raised

\* C3: for every entity with both a primary and a secondary record, the merged
\* record's 'benchmarks' is the primary record's list, same entries in the same
\* order; the secondary benchmarks are under 'hf_benchmarks' only.
C3_PrimaryBenchmarksKept ==
    (orch = "llmstats" /\ enrich_with_hf /\ pc \in {"save", "write"}) =>
        \A k \in 1..Len(models) :
            LET m  == models[k]
                id == m.model_id
            IN  (id \in DOMAIN cache /\ cache[id] # <<>>) =>
                    /\ Has(m, "hf_license")
                    /\ m.benchmarks = primary_record(id).benchmarks
                    /\ cache[id][1].benchmarks # <<>> =>
                           /\ Has(m, "hf_benchmarks")
                           /\ m.hf_benchmarks = cache[id][1].benchmarks

\* a merged record whose primary and secondary benchmark lists both have
\* entries and differ
C3_Witness ==
    /\ orch = "llmstats"
    /\ pc = "save"
    /\ \E k \in 1..Len(models) :
          /\ Has(models[k], "hf_benchmarks")
          /\ models[k].benchmarks # <<>>
          /\ models[k].hf_benchmarks # models[k].benchmarks

\* C4: a fetch that ends in NotFound stores a negative cache entry, and every
\* later scrape_model call for the identifier returns no record and issues no
\* request.
C4_NotFoundCached ==
    /\ [](\A id \in Ids :
            outcome[id] = "NotFound" =>
                /\ id \in DOMAIN cache
                /\ cache[id] = <<>>
                /\ \A k \in 1..Len(tasks) :
                      tasks[k].model_id = id =>
                          /\ tasks[k].pc = "done"
                          /\ tasks[k].result = <<>>
                          /\ tasks[k].resp \in {"404", "hit"})
    /\ [][\A id \in Ids :
            outcome[id] = "NotFound" => requests'[id] = requests[id]]_vars

\* a later call for an identifier that was NotFound, answered None from the cache
C4_Witness ==
    \E k \in 1..Len(tasks) :
        /\ tasks[k].resp = "hit"
        /\ tasks[k].result = <<>>
        /\ outcome[tasks[k].model_id] = "NotFound"
        /\ requests[tasks[k].model_id] = 1

\* C5: when the list given to scrape_models_batch names an identifier more than
\* once, at most one scrape_model call and one request are made for it during
\* the call, and if it resolves to NotFound the records returned hold no entry
\* for it.
C5_DuplicateNotFound ==
    \A id \in Ids :
        Count(model_ids, id) >= 2 =>
            /\ Count(dispatched, id) <= 1
            /\ fetched[id] <= 1
            /\ outcome[id] = "NotFound" =>
                   \A n \in 1..Len(results) : results[n].model_id # id

\* the call has ended for a list naming twice an identifier that was fetched
\* once and was NotFound
C5_Witness ==
    /\ bpc = "done"
    /\ \E id \in Ids :
          /\ Count(model_ids, id) >= 2
          /\ fetched[id] = 1
          /\ outcome[id] = "NotFound"

\* C6, as claimed: every rate-limited outcome of scrape_model (status 429, or an
\* HTTP error whose text has 429) has applied exactly one backoff wait, issued
\* one request, returned no record and left the cache unwritten.
C6_RateLimitedBacksOff ==
    \A k \in 1..Len(tasks) :
        (tasks[k].pc = "done" /\ tasks[k].resp \in {"429", "HTTPError429"}) =>
            /\ tasks[k].waits = 1
            /\ tasks[k].gets = 1
            /\ tasks[k].result = <<>>
            /\ tasks[k].model_id \notin DOMAIN cache

\* C7: in every snapshot built or written by _save_data, total_count is the
\* length of models.
C7_TotalCount ==
    /\ file.state = "complete" => file.data[1].total_count = Len(file.data[1].models)
    /\ output_data # <<>> => output_data[1].total_count = Len(output_data[1].models)

\* this process has committed a snapshot of two models
C7_Witness ==
    /\ runs >= 1
    /\ pc = "idle"
    /\ file.state = "complete"
    /\ Len(file.data[1].models) = 2

\* the de-duplication key of a benchmark entry
Key(b) == <<b.name, b.score>>

\* the positions of s whose element (or its key) occurs at no earlier position
FirstSeen(s) == {p \in 1..Len(s) : \A q \in 1..(p - 1) : s[q] # s[p]}

\* s without its repeats, in order of first occurrence
Distinct(s) ==
    LET nth(n) == CHOOSE p \in FirstSeen(s) :
                      Cardinality({q \in FirstSeen(s) : q < p}) = n - 1
    IN  [n \in 1..Cardinality(FirstSeen(s)) |-> s[nth(n)]]

Keys(bs) == [p \in 1..Len(bs) |-> Key(bs[p])]

\* what the two passes of _extract_benchmarks find in soup, table pass first
BothPasses == table_benchmarks(soup.table) \o text_benchmarks(1, soup.text)

\* C8: no two entries of a candidate record's benchmark list have the same
\* (name, score) pair, for either collector; of the entries the table pass and
\* then the text pass find, the first of each pair is the one kept, in
\* first-seen order.
C8_NoDuplicatePairs ==
    benchmarks # <<>> =>
        /\ \A p, q \in 1..Len(benchmarks[1]) :
              p # q => Key(benchmarks[1][p]) # Key(benchmarks[1][q])
        /\ collector = "hf" =>
              /\ Keys(benchmarks[1]) = Distinct(Keys(BothPasses))
              /\ \A n \in 1..Len(benchmarks[1]) : benchmarks[1][n] \in Range(BothPasses)

\* a page whose text pass finds again a pair the table pass found
C8_Witness ==
    /\ collector = "hf"
    /\ benchmarks # <<>>
    /\ Len(benchmarks[1]) >= 2
    /\ \E b \in Range(table_benchmarks(soup.table)) :
          \E c \in Range(text_benchmarks(1, soup.text)) : Key(b) = Key(c)

\* C9, as claimed: identifiers that differ only in letter casing or a trailing
\* slash are one entity wherever an identifier is a key: one dispatch, one
\* cache entry, and a match in the fusion lookup.
C9_CanonicalIdentifiers ==
    /\ \A p, q \in 1..Len(dispatched) :
          p # q => Canonical(dispatched[p]) # Canonical(dispatched[q])
    /\ \A a, b \in DOMAIN cache : Canonical(a) = Canonical(b) => a = b
    /\ (orch = "llmstats" /\ enrich_with_hf /\ pc = "save") =>
          \A k \in 1..Len(models) :
              (\E b \in DOMAIN cache :
                  /\ cache[b] # <<>>
                  /\ Canonical(b) = Canonical(models[k].model_id))
              => Has(models[k], "hf_license")

\* the fetch of the identifier ended in Success
Succeeded(id) == outcome[id] = "Success"

\* C10: scrape_models_batch calls scrape_model once for each distinct identifier
\* of its input, in order of first occurrence, and returns the records of the
\* identifiers fetched successfully, in that order, each carrying the identifier
\* it was requested with.
C10_DispatchOrder ==
    /\ dispatched = SubSeq(Distinct(model_ids), 1, Len(dispatched))
    /\ bpc = "done" =>
          /\ dispatched = Distinct(model_ids)
          /\ [n \in 1..Len(results) |-> results[n].model_id]
                 = SelectSeq(dispatched, Succeeded)
          /\ \A n \in 1..Len(results) : results[n] = cache[results[n].model_id][1]

\* a call of two batches has ended, the first identifier failed and the record
\* of the second is returned
C10_Witness ==
    /\ bpc = "done"
    /\ i > 0
    /\ Len(dispatched) = 2
    /\ Len(results) = 1
    /\ results[1].model_id = dispatched[2]

\* C11: the fused list has exactly the primary records' entities, one record
\* per primary record in the same order: _enrich_with_huggingface adds no
\* record, drops none, and keeps every field of each primary record, with or
\* without secondary data for it.
C11_FusionKeepsPrimary ==
    [][(orch = "llmstats" /\ pc = "hf" /\ pc' = "save") =>
          /\ Len(models') = Len(models)
          /\ \A k \in 1..Len(models) :
                /\ models'[k].model_id = models[k].model_id
                /\ \A key \in DOMAIN models[k] :
                      key \in DOMAIN models'[k] /\ models'[k][key] = models[k][key]]_vars

\* the fusion is done for a primary record no secondary data came for, while
\* the instance holds secondary data of an identifier the primary collection
\* did not list
C11_Witness ==
    /\ orch = "llmstats"
    /\ enrich_with_hf
    /\ pc = "save"
    /\ \E k \in 1..Len(models) : ~Has(models[k], "hf_license")
    /\ \E id \in DOMAIN cache :
          /\ cache[id] # <<>>
          /\ \A k \in 1..Len(models) : models[k].model_id # id

\* C12, as claimed: every run of collect_all_data ends by committing a snapshot
\* unless a persistence error ended it, also when the rendered collector timed
\* out or found nothing, or when every secondary fetch failed.
C12_RunCommitsSnapshot ==
    [][(orch \in {"llmstats", "simple"} /\ pc # "idle" /\ pc' = "idle") =>
          \/ pc = "write" /\ file' = Committed(output_data[1])
          \/ pc \in {"save", "write"} /\ file' = file]_vars

\* the records of the rows of rs that are model rows, in row order
ModelRowRecords(rs) ==
    LET good == SelectSeq(rs, LAMBDA r : r \in Ids)
    IN  [k \in 1..Len(good) |-> primary_record(good[k])]

\* C13: a failed fetch of one identifier, or a row that gives no record, ends
\* neither the batch call nor the row loop: when scrape_models_batch returns,
\* every identifier of its input was dispatched and either requested or answered
\* from the cache, and the record of every successful one is returned; the row
\* loop, unless the run is cancelled in it, returns the records of all model
\* rows whatever the other rows did.
C13_FailuresContained ==
    /\ [](bpc = "done" =>
            \A id \in Range(model_ids) :
                /\ Count(dispatched, id) = 1
                /\ fetched[id] = 1 \/ id \in DOMAIN cache
                /\ outcome[id] # "none"
                /\ outcome[id] = "Success" =>
                      \E n \in 1..Len(results) : results[n].model_id = id)
    /\ [][(pc = "extract" /\ pc' \notin {"extract", "cancelled"}) =>
             models' = ModelRowRecords(rows)]_vars

\* a batch of two whose first fetch raised and whose second record is returned
C13_Witness ==
    /\ bpc = "done"
    /\ i = 0
    /\ Len(dispatched) = 2
    /\ outcome[dispatched[1]] = "TransientError"
    /\ fetched[dispatched[2]] = 1
    /\ Len(results) = 1
    /\ results[1].model_id = dispatched[2]

C15_TimestampMonotonic ==
    [][last_committed # <<>> => last_committed'[1] >= last_committed[1]]_vars

\* the document of the scenario of spec.md section 8
ScenarioPage ==
    [PageBare EXCEPT !.yaml_license = "apache-2.0",
                     !.table = << <<"MMLU", "85.5%">> >>]

\* C16, as claimed: "acme/foo-7b" with table row ["MMLU", "85.5%"] and text
\* "license: apache-2.0" gives is_open_source = true and the one benchmark
\* {name "MMLU", score 85.5, category "knowledge"}.
C16_Scenario ==
    (collector = "page" /\ model_data # <<>> /\ page_id = "acme/foo-7b"
        /\ soup = ScenarioPage) =>
        /\ ~model_data[1].raised
        /\ model_data[1].data[1].model_id = "acme/foo-7b"
        /\ model_data[1].data[1].is_open_source
        /\ model_data[1].data[1].benchmarks =
              <<[name |-> "MMLU", score |-> 85500, category |-> "knowledge"]>>

\* the text has a digit
HasDigit(text) == \E k \in 1..Len(Chars(text)) : Chars(text)[k] \in Digit

\* the text is a number as float() reads it
IsNumber(text) ==
    /\ HasDigit(text)
    /\ Cardinality({k \in 1..Len(Chars(text)) : Chars(text)[k] = "."}) <= 1

\* no license in the page: none of the three places has one, or the first that
\* is there is empty
NoLicenseFound(page) ==
    \/ page.a_license = ""
    \/ page.a_license = None /\ page.meta_license = ""
    \/ page.a_license = None /\ page.meta_license = None
          /\ page.yaml_license \in {None, ""}

\* C17: _parse_model_page returns a record for every page and identifier and no
\* exception leaves it; the record has the identifier, a benchmark list and
\* is_open_source, false when no license was found; a numeric text that does
\* not parse (context window, downloads, likes, a table or text score) leaves
\* only its own field or entry out.
C17_AlwaysARecord ==
    (collector = "page" /\ model_data # <<>>) =>
        /\ ~model_data[1].raised
        /\ Len(model_data[1].data) = 1
        /\ LET d == model_data[1].data[1]
           IN  /\ d.model_id = page_id
               /\ Has(d, "benchmarks")
               /\ Has(d, "is_open_source")
               /\ NoLicenseFound(soup) => (~d.is_open_source /\ ~Has(d, "license"))
               /\ ~NoLicenseFound(soup) => Has(d, "license")
               /\ Has(d, "context_window") <=> (soup.context # None /\ HasDigit(soup.context))
               /\ Has(d, "downloads") <=> (soup.downloads # None /\ HasDigit(soup.downloads))
               /\ Has(d, "likes") <=> (soup.likes # None /\ HasDigit(soup.likes))
               /\ \A k \in 1..Len(soup.table) :
                     HasDigit(soup.table[k][2]) =>
                         \E n \in 1..Len(d.benchmarks) :
                             d.benchmarks[n].name = soup.table[k][1]
               /\ \A k \in 1..Len(soup.text) :
                     IsNumber(soup.text[k][2]) =>
                         \E n \in 1..Len(d.benchmarks) :
                             d.benchmarks[n].name = soup.text[k][1]
               /\ \A n \in 1..Len(d.benchmarks) :
                     \/ \E k \in 1..Len(soup.table) :
                           /\ HasDigit(soup.table[k][2])
                           /\ d.benchmarks[n].name = soup.table[k][1]
                     \/ \E k \in 1..Len(soup.text) :
                           /\ IsNumber(soup.text[k][2])
                           /\ d.benchmarks[n].name = soup.text[k][1]

\* a page whose context window and one text score do not parse while its
\* download count and a table score do
C17_Witness ==
    /\ collector = "page"
    /\ model_data # <<>>
    /\ soup.context = ","
    /\ soup.downloads = "1,234"
    /\ soup.text = << <<"GSM8K", "1.2.3">> >>
    /\ soup.table = << <<"MMLU", "85.5%">> >>
    /\ ~model_data[1].raised
    /\ Has(model_data[1].data[1], "downloads")
    /\ ~Has(model_data[1].data[1], "context_window")
    /\ Len(model_data[1].data[1].benchmarks) = 1

\* C18: scrape_models_batch starts the coroutines of a further batch only when
\* every scrape_model call it has started before has returned.
C18_BatchBarrier ==
    [][(dispatched # <<>> /\ Len(dispatched') > Len(dispatched)) =>
          completed = Len(dispatched)]_vars

\* the second batch is in flight after the first one ended
C18_Witness ==
    /\ bpc = "gather"
    /\ i > 0
    /\ Len(dispatched) = 2
    /\ completed = 1
    /\ \E k \in 1..Len(tasks) : tasks[k].pc = "get"

\* scrape_model calls of the current scrape_models_batch call that have been
\* started and have not returned
InFlight == Len(dispatched) - completed

\* C19: at every moment of a scrape_models_batch call at most max_concurrent
\* fetches are in flight.
C19_BoundedInFlight == InFlight >= 0 /\ InFlight <= max_concurrent

\* max_concurrent fetches are in flight while more identifiers wait
C19_Witness ==
    /\ bpc = "gather"
    /\ Len(unique_ids) > max_concurrent
    /\ InFlight = max_concurrent

\* C20: a cache entry is written once at most, by a Success or a NotFound
\* outcome only, and an entry that is there is never changed or removed.
C20_CacheWrittenOnce ==
    /\ [](\A id \in Ids :
            /\ cache_writes[id] <= 1
            /\ cache_writes[id] = 1 <=> id \in DOMAIN cache)
    /\ [][\A id \in Ids :
            /\ id \in DOMAIN cache => (id \in DOMAIN cache' /\ cache'[id] = cache[id])
            /\ (id \notin DOMAIN cache /\ id \in DOMAIN cache') =>
                  /\ outcome'[id] \in {"Success", "NotFound"}
                  /\ (cache'[id] = <<>>) <=> (outcome'[id] = "NotFound")]_vars

\* a call whose list named an identifier twice has ended with its record
\* cached by one write
C20_Witness ==
    /\ bpc = "done"
    /\ \E id \in Ids :
          /\ Count(model_ids, id) >= 2
          /\ cache_writes[id] = 1
          /\ outcome[id] = "Success"

\* the five categories of spec.md section 3
Categories == {"reasoning", "coding", "agents", "knowledge", "general"}

\* C27, as claimed: each collector's categorizer gives every name one of the
\* five categories, a name that matches knowledge keywords only (MMLU) is
\* "knowledge", and a name with a coding keyword is "coding" whatever else it
\* matches.
C27_Categorization ==
    (collector \in {"hf", "llmstats"} /\ benchmarks # <<>>) =>
        \A k \in 1..Len(benchmarks[1]) :
            LET b          == benchmarks[1][k]
                name_lower == Lower(Chars(b.name))
            IN  /\ b.category \in Categories
                /\ b.name = "MMLU" => b.category = "knowledge"
                /\ AnyIn(name_lower, {Chars("code"), Chars("swe")}) =>
                        b.category = "coding"

\* the records of ms that the fusion merged a secondary record into: the merge
\* alone sets the key 'hf_license' (to None when the page named no license)
Merged(ms) == {k \in 1..Len(ms) : Has(ms[k], "hf_license")}

\* C23, as claimed: in the snapshot LLMStatsOrchestrator builds,
\* metadata.hf_enriched_count is the number of primary records a secondary
\* record was merged into, those without license and benchmarks included, and
\* metadata.total_benchmarks is the sum of the lengths of the primary
\* 'benchmarks' lists.
C23_EnrichedCount ==
    (orch = "llmstats" /\ output_data # <<>>) =>
        /\ output_data[1].metadata.hf_enriched_count =
              Cardinality(Merged(output_data[1].models))
        /\ output_data[1].metadata.total_benchmarks =
              SumLen(output_data[1].models)

\* C22, as claimed: every client.get of the instance comes out of a wait of
\* self.delay, and no other request of the instance was issued since that
\* wait began, so that two requests are a whole delay apart.  (The waits of
\* the coroutines of a batch all begin when gather starts them, and `gets`
\* counts a coroutine's requests since then.)
C22_DelayBetweenRequests ==
    [][\A k \in 1..Len(tasks) :
          (/\ Len(tasks') = Len(tasks)
           /\ tasks[k].gets = 0
           /\ tasks'[k].gets = 1) =>
              /\ tasks[k].pc = "sleep"
              /\ \A j \in 1..Len(tasks) : tasks[j].gets = 0]_vars

\* the run was cancelled: CancelledError left it, or was raised in a fetch
Cancelled == pc = "cancelled" \/ \E id \in Ids : outcome[id] = "Cancelled"

\* a cache entry is whole: None for a 404, or the record parsed for its key
CompleteEntry(id) ==
    \/ cache[id] = <<>>
    \/ /\ Len(cache[id]) = 1
       /\ Get(cache[id][1], "model_id") = id
       /\ Has(cache[id][1], "benchmarks")
       /\ Has(cache[id][1], "is_open_source")

\* C21: once a run is cancelled at a suspension point (page load, primary
\* fetch, inter-request delay, network fetch, inter-batch delay), no request
\* is issued, no snapshot is built and the file is not touched, the browser is
\* not left open, and the cache keeps exactly its entries, each of them whole.
C21_CancellationIsClean ==
    /\ [](Cancelled =>
            /\ output_data = <<>>
            /\ pc \notin {"save", "write"}
            /\ browser # "open"
            /\ \A id \in DOMAIN cache : CompleteEntry(id))
    /\ [][Cancelled' =>
            /\ requests' = requests
            /\ file' = file
            /\ last_committed' = last_committed
            /\ cache' = cache]_vars

\* the fusion run was cancelled while one fetch of its batch was in flight and
\* another had been answered and cached, with an earlier snapshot on disk
C21_Witness ==
    /\ orch = "llmstats"
    /\ pc = "cancelled"
    /\ file.state = "complete"
    /\ \E id \in Ids : outcome[id] = "Cancelled" /\ requests[id] >= 1
    /\ \E id \in DOMAIN cache : cache[id] # <<>>

\* the records the row path of _extract_models gives for a page
RowPathRecords(page_) ==
    IF page_.rows = <<>> THEN <<>> ELSE models_from_rows(page_.rows[1])

\* C24, as claimed: _extract_models attempts the JSON-in-markup fallback
\* exactly when the row path gave no record.
C24_FallbackIffNoRows ==
    (collector = "leaderboard" /\ extracted # <<>>) =>
        (extracted[1].fallback <=> RowPathRecords(lb_page) = <<>>)

\* the name cell as claimed: the first cell longer than two characters that
\* is not purely numeric and has no currency symbol; 0 when there is none
ClaimedNameIndex(cell_values) ==
    LET claimed(n) == LET cs == Chars(cell_values[n])
                      IN  Len(cs) > 2 /\ ~isdigit(cs) /\ ~Contains(cs, <<"$">>)
    IN  IF \E n \in 1..Len(cell_values) : claimed(n)
        THEN CHOOSE n \in 1..Len(cell_values) :
                claimed(n) /\ \A j \in 1..(n - 1) : ~claimed(j)
        ELSE 0

\* the name claimed for the k-th benchmark of a row
ClaimedBenchmarkName(k) ==
    IF k <= Len(benchmark_names) THEN benchmark_names[k] ELSE Benchmark_N(k)

\* C25, as claimed: in the record of a row, the name is the first cell longer
\* than two characters that is not purely numeric and has no currency symbol,
\* the two cells after it give the prices when they hold a currency symbol,
\* and the k-th cell with a percent sign is the k-th benchmark, named by
\* position.
C25_CellRoles ==
    (collector = "leaderboard" /\ extracted # <<>> /\ lb_page.rows # <<>>
        /\ Len(lb_page.rows[1]) = 1 /\ Len(extracted[1].models) = 1) =>
        LET cell_values == cell_values_of(lb_page.rows[1][1])
            r  == extracted[1].models[1]
            n  == ClaimedNameIndex(cell_values)
            percents == SelectSeq(cell_values,
                                  LAMBDA cell : Contains(Chars(cell), <<"%">>))
        IN  /\ n # 0
            /\ r.model_name = Chars(cell_values[n])
            /\ r.input_price_per_1m = price_at(cell_values, n + 1)
            /\ r.output_price_per_1m = price_at(cell_values, n + 2)
            /\ Len(r.benchmarks) = Len(percents)
            /\ \A k \in 1..Len(percents) :
                  /\ r.benchmarks[k].name = ClaimedBenchmarkName(k)
                  /\ extract_score(percents[k]).ok
                  /\ r.benchmarks[k].score = extract_score(percents[k]).val

\* C26, as claimed: in every record of the rendered collector, row path or
\* JSON fallback, the identifier is the name itself when the name has a
\* slash, else the organization of the first alias found in the name, or
\* "unknown", then a slash and the name; and the organization field is the
\* identifier's prefix.
C26_IdentifierInference ==
    (collector = "leaderboard" /\ extracted # <<>>) =>
        \A k \in 1..Len(extracted[1].models) :
            LET r    == extracted[1].models[k]
                hits == {n \in 1..Len(org_mapping) :
                            Contains(Lower(r.model_name), Chars(org_mapping[n][1]))}
                org  == IF hits = {} THEN Chars("unknown")
                        ELSE Chars(org_mapping[CHOOSE n \in hits :
                                                   \A j \in hits : n <= j][2])
            IN  /\ Contains(r.model_id, <<"/">>)
                /\ r.model_id = IF Contains(r.model_name, <<"/">>) THEN r.model_name
                                ELSE org \o <<"/">> \o r.model_name
                /\ r.organization = split_0(r.model_id)

====
